---- MODULE Spec2Model ----
(***************************************************************************)
(* A model of the filesystem storage engine of fontra-rcjk                 *)
(* (src/src/fontra_rcjk/backend_fs.py): RCJKBackend and RCJKGlyphSet, the  *)
(* glyph layer cache, the written-path ledger and the external-change      *)
(* path.  The glyph codec and the timed cache live in fontra_rcjk/base.py  *)
(* and are modelled from the design document.                              *)
(***************************************************************************)
EXTENDS Integers, Sequences, FiniteSets, Bags, TLC

----------------------------------------------------------------------------
(* Bounds of the model *)

\* Number of backend calls (putGlyph / getGlyph / deleteGlyph) in a run.
MaxOps == 3

\* Number of file changes made by tools other than the backend in a run.
MaxExternal == 1

\* Number of (change, path) events the watcher delivers in one batch.
MaxBatch == 2

\* Number of callbacks registered through watchExternalChanges.
MaxCallbacks == 1

----------------------------------------------------------------------------
(* Program constants *)

\* backend_fs.py:38  glyphSetNames, in the order of _iterGlyphSets
glyphSetNames == <<"characterGlyph", "deepComponent", "atomicElement">>

\* backend_fs.py:41  FILE_DELETED_TOKEN = object(): a value no mtime equals
FILE_DELETED_TOKEN == -1

GlyphSets == {glyphSetNames[i] : i \in 1..Len(glyphSetNames)}

----------------------------------------------------------------------------
(* Input universes.  Small sets the operations draw their arguments from. *)

GlyphNames == {"a", "b", "d"}

\* The logical layer names used by the glyphs of the model, and the names
\* of the layer directories they are stored under.
LayerNames == {"bold", "light", "default"}

\* fontTools.ufoLib.filenames.userNameToFileName(glyphName, suffix=".glif"):
\* for the lower-case ASCII names of the model the name plus the suffix.
userNameToFileName(glyphName) == glyphName \o ".glif"

FileNames == {userNameToFileName(n) : n \in GlyphNames}

\* A path below the project root: <<glyph set, layer directory, file name>>;
\* the layer directory is "" for the glyph set's own directory.
MainDir == ""
PathOf(gs, layerDir, fileName) == <<gs, layerDir, fileName>>
Basename(path) == path[3]

----------------------------------------------------------------------------
(* Partial maps (Python dicts) as functions with a finite domain *)

EmptyMap == <<>>
MapPut(f, k, v) == [x \in DOMAIN f \cup {k} |-> IF x = k THEN v ELSE f[x]]
MapDel(f, k) == [x \in DOMAIN f \ {k} |-> f[x]]
MapMerge(f, g) == [x \in DOMAIN f \cup DOMAIN g |-> IF x \in DOMAIN g THEN g[x] ELSE f[x]]

\* F applied to x: the value of x is computed once, however often F uses it.
Then(x, F(_)) == F(x)

\* An optional value: <<>> is None, <<v>> is the value v.
None == <<>>
Some(v) == <<v>>

----------------------------------------------------------------------------
(* The glyph codec (fontra_rcjk/base.py) *)

\* The layer names of tests/test_font.py (test_bad_layer_name) that are no
\* directory names: one with a path separator, and one that is too long as
\* well.
BadLayerName == "boooo/oooold"

BadLongLayerName == "boooo/ooooldboooo/ooooldboooo/ooooldboooo/ooooldboooo/oooold"

UnsafeLayerNames == {BadLayerName, BadLongLayerName}

\* base.makeSafeLayerName on the layer names of the model: a name that is
\* safe as a directory name and short enough is kept; of any other name the
\* separators are replaced, the name is cut to the length limit and a hash
\* of the whole name is put after it (the names expected in
\* layerNameMappingTestData).
makeSafeLayerName(layerName) ==
    CASE layerName = BadLayerName -> "boooo_oooold.75e003ed2da2"
      [] layerName = BadLongLayerName -> "boooo_ooooldboooo_ooooldboooo_ooooldb.360a3fdd78e6"
      [] OTHER -> layerName

\* GLIFGlyph.asGLIFData: the serialized form of one layer record.
asGLIFData(g) ==
    <<"glyph", g.name, g.unicodes, <<"advance", g.xAdvance>>,
      <<"components", g.components>>, <<"lib", g.lib>> >>

\* GLIFGlyph.fromGLIFData: the record parsed back from the serialized form.
fromGLIFData(data) ==
    [name |-> data[2], unicodes |-> data[3], xAdvance |-> data[4][2],
     components |-> data[5][2], lib |-> data[6][2]]

\* fontra.backends.ufo_utils.extractGlyphNameAndCodePoints: the glyph name
\* and the code points found in the head of a glyph file.
extractGlyphNameAndCodePoints(data) == <<data[2], data[3]>>

\* GLIFGlyph.getComponentNames
getComponentNames(g) == g.components

\* The lib of a layer record that is not the foreground.
PlainLib(foreign) ==
    [axes |-> <<>>, variationGlyphs |-> <<>>, customData |-> {}, foreign |-> foreign]

IsDefaultSource(source, defaultLocation) ==
    MapMerge(defaultLocation, source.location) = defaultLocation

HasDefaultSource(glyph, defaultLocation) ==
    \E i \in 1..Len(glyph.sources) : IsDefaultSource(glyph.sources[i], defaultLocation)

\* The first source that sits at the default location.
DefaultSourceIndex(glyph, defaultLocation) ==
    CHOOSE i \in 1..Len(glyph.sources) :
        /\ IsDefaultSource(glyph.sources[i], defaultLocation)
        /\ \A j \in 1..(i - 1) : ~IsDefaultSource(glyph.sources[j], defaultLocation)

\* base.buildLayerGlyphsFromVariableGlyph: the per-layer records of a
\* variable glyph.  The layer of the default source becomes "foreground";
\* every other source becomes a variation descriptor of the foreground; a
\* layer whose name is no safe directory name is stored under the safe name
\* and the descriptor keeps the logical name; lib entries with no place in
\* the variable glyph are taken over from the existing records.
buildLayerGlyphsFromVariableGlyph(glyphName, glyph, codePoints, defaultLocation, existingLayerGlyphs) ==
    LET d == DefaultSourceIndex(glyph, defaultLocation)
        defaultLayerName == glyph.sources[d].layerName
        key(ln) == IF ln = defaultLayerName THEN "foreground" ELSE makeSafeLayerName(ln)
        logicalOf(k) == CHOOSE ln \in DOMAIN glyph.layers : key(ln) = k
        other(i) == IF i < d THEN i ELSE i + 1
        varGlyph(s) ==
            [layerName |-> makeSafeLayerName(s.layerName),
             sourceName |-> s.name,
             location |-> s.location,
             fontraLayerName |->
                 IF makeSafeLayerName(s.layerName) = s.layerName THEN "" ELSE s.layerName]
        variationGlyphs ==
            [i \in 1..(Len(glyph.sources) - 1) |-> varGlyph(glyph.sources[other(i)])]
        foreign(k) ==
            IF k \in DOMAIN existingLayerGlyphs
            THEN existingLayerGlyphs[k].lib.foreign ELSE {}
    IN  [k \in {key(ln) : ln \in DOMAIN glyph.layers} |->
            [name |-> glyphName,
             unicodes |-> IF k = "foreground" THEN codePoints ELSE <<>>,
             xAdvance |-> glyph.layers[logicalOf(k)].xAdvance,
             components |-> glyph.layers[logicalOf(k)].components,
             lib |-> IF k = "foreground"
                     THEN [axes |-> glyph.axes,
                           variationGlyphs |-> variationGlyphs,
                           customData |-> glyph.customData,
                           foreign |-> foreign(k)]
                     ELSE PlainLib(foreign(k))]]

\* base.buildVariableGlyphFromLayerGlyphs: the variable glyph of a set of
\* layer records.  The foreground gives the synthetic source "<default>";
\* each variation descriptor gives one source; a layer stored under a safe
\* name gets its logical name back from its descriptor.
buildVariableGlyphFromLayerGlyphs(layerGlyphs, fontAxes) ==
    LET fg == layerGlyphs["foreground"]
        vgs == fg.lib.variationGlyphs
        logical(vg) == IF vg.fontraLayerName # "" THEN vg.fontraLayerName ELSE vg.layerName
        layerNameOf(k) ==
            IF \E i \in 1..Len(vgs) : vgs[i].layerName = k /\ vgs[i].fontraLayerName # ""
            THEN logical(vgs[CHOOSE i \in 1..Len(vgs) :
                                vgs[i].layerName = k /\ vgs[i].fontraLayerName # ""])
            ELSE k
        keyOf(ln) == CHOOSE k \in DOMAIN layerGlyphs : layerNameOf(k) = ln
    IN  [name |-> fg.name,
         axes |-> fg.lib.axes,
         sources |->
             <<[name |-> "<default>", layerName |-> "foreground", location |-> EmptyMap]>>
             \o [i \in 1..Len(vgs) |->
                    [name |-> vgs[i].sourceName,
                     layerName |-> logical(vgs[i]),
                     location |-> vgs[i].location]],
         layers |->
             [ln \in {layerNameOf(k) : k \in DOMAIN layerGlyphs} |->
                 [xAdvance |-> layerGlyphs[keyOf(ln)].xAdvance,
                  components |-> layerGlyphs[keyOf(ln)].components]],
         customData |-> fg.lib.customData]

----------------------------------------------------------------------------
(* The state *)

VARIABLES
    files,                 \* the glyph files on disk: path -> [data, mtime]
    dirs,                  \* the directories on disk: <<glyph set, layer directory>>
    clock,                 \* the modification time the next write gets
    contents,              \* per glyph set, RCJKGlyphSet.contents: glyphName -> path
    glifFileNames,         \* per glyph set, RCJKGlyphSet.glifFileNames: fileName -> glyphName
    layers,                \* per glyph set, RCJKGlyphSet.layers: layerName -> file names
    glyphMap,              \* RCJKBackend._glyphMap: glyphName -> codePoints
    cache,                 \* RCJKBackend._tempGlyphCache: glyphName -> layerName -> record
    timerPending,          \* whether the cache's expiry timer task is pending
    recentlyWrittenPaths,  \* RCJKBackend._recentlyWrittenPaths: path -> mtime or token
    fileWatcherCallbacks,  \* the number of callbacks in RCJKBackend.fileWatcherCallbacks
    pendingEvents,         \* file changes the watcher has seen and not yet delivered, oldest first
    result,                \* the last call: its name, arguments, return value or error
    opCount,               \* calls made so far
    extCount,              \* file changes made by other tools so far
    repeated,              \* the last call was a putGlyph repeating the call before it
    deletedGlyphs,         \* the names deleted by deleteGlyph and not written since
    watcherClosed,         \* aclose has returned
    delivery,              \* where _fileWatcherCallback stands in its loop over the callbacks
    designspace,           \* RCJKBackend.designspace: unitsPerEm, fontInfo, sources, axes
    writing,               \* the write_text of designspace.json under way: old and new content
    standardCustomDataItems, \* base.standardCustomDataItems, the module's built-in custom data
    cachedDefaultLocation, \* RCJKBackend._defaultLocation as cached_property keeps it: None or the value
    managerReadOnly,       \* RCJKProjectManager.readOnly
    userGroups,            \* the "groups" the RCJK server answers for user_me
    rcjkClients,           \* the RCJKClientAsync objects login has made, in order
    authorizedClients,     \* RCJKProjectManager.authorizedClients: token -> AuthorizedClient
    clientObjects,         \* the AuthorizedClient objects: _projectMapping, fontHandlers
    fontHandlerObjects,    \* the FontHandler objects getFontHandler has made, in order
    calls,                 \* the getRemoteSubject calls waiting for the server, a bag
    issuedTokens,          \* the tokens login has returned
    loggedOutTokens,       \* the tokens a logout request has carried
    managerResult          \* the last step of the project manager and its outcome

\* The state of the watcher's notifications.
notifyVars == <<watcherClosed, delivery>>

\* The state of the font-wide data.
sidecarVars == <<designspace, writing, standardCustomDataItems, cachedDefaultLocation>>

\* The state of the project manager.
managerVars == <<managerReadOnly, userGroups, rcjkClients, authorizedClients, clientObjects,
                 fontHandlerObjects, calls, issuedTokens, loggedOutTokens, managerResult>>

\* The state the glyph calls and the file changes leave alone.
otherVars == <<notifyVars, sidecarVars, managerVars>>

vars == <<files, dirs, clock, contents, glifFileNames, layers, glyphMap, cache,
          timerPending, recentlyWrittenPaths, fileWatcherCallbacks, pendingEvents,
          result, opCount, extCount, repeated, deletedGlyphs, otherVars>>

\* The state of the backend.
backendVars == <<files, dirs, clock, contents, glifFileNames, layers, glyphMap, cache,
                 timerPending, recentlyWrittenPaths, fileWatcherCallbacks, pendingEvents,
                 result, opCount, extCount, repeated, deletedGlyphs, notifyVars,
                 sidecarVars>>

\* The part of the state the glyph sets work on, threaded through their
\* methods: the disk, the three glyph sets' indices, the ledger they report
\* to and the file events their writes cause (the watcher sees a change
\* once watchExternalChanges has started it).
Store ==
    [files |-> files, dirs |-> dirs, contents |-> contents,
     glifFileNames |-> glifFileNames, layers |-> layers,
     ledger |-> recentlyWrittenPaths, events |-> pendingEvents,
     watching |-> fileWatcherCallbacks > 0]

----------------------------------------------------------------------------
(* The disk *)

Exists(st, path) == path \in DOMAIN st.files

\* os.path.getmtime of an existing file
GetMTime(st, path) == st.files[path].mtime

\* pathlib.Path.write_bytes: the file gets the data and the current time.
WriteBytes(st, path, data, now) ==
    [st EXCEPT !.files = MapPut(@, path, [data |-> data, mtime |-> now]),
               !.events = IF st.watching
                          THEN Append(@, <<IF Exists(st, path) THEN "modified" ELSE "added",
                                           path>>)
                          ELSE @]

\* pathlib.Path.unlink of an existing file
Unlink(st, path) ==
    [st EXCEPT !.files = MapDel(@, path),
               !.events = IF st.watching THEN Append(@, <<"deleted", path>>) ELSE @]

\* The layer directory names the model uses, as sorted() orders them.
SortedLayerDirs ==
    <<"AB", "Ab", "ab", "bold", "boooo_oooold.75e003ed2da2",
      "boooo_ooooldboooo_ooooldboooo_ooooldb.360a3fdd78e6", "default", "light">>

----------------------------------------------------------------------------
(* RCJKBackend.registerWrittenPath *)

registerWrittenPath(st, path, deleted) ==
    [st EXCEPT !.ledger =
        MapPut(@, path, IF deleted THEN FILE_DELETED_TOKEN ELSE GetMTime(st, path))]

----------------------------------------------------------------------------
(* RCJKGlyphSet *)

\* RCJKGlyphSet.__contains__
InGlyphSet(st, gs, glyphName) == glyphName \in DOMAIN st.contents[gs]

\* The file names self.layers[layerName] holds; {} when the layer is unknown.
LayerContents(st, gs, layerName) ==
    IF layerName \in DOMAIN st.layers[gs].contents
    THEN st.layers[gs].contents[layerName] ELSE {}

\* RCJKGlyphSet.getGlyphLayerData for a glyph the set holds: the layer
\* names with their file data, foreground and then every layer of
\* self.layers that lists the file name and whose file exists.  The main
\* file is read without a check: a missing main file is an error.
GlyphLayerNames(st, gs, glyphName) ==
    LET mainFileName == Basename(st.contents[gs][glyphName])
    IN  {"foreground"} \cup
        {ln \in DOMAIN st.layers[gs].contents :
            /\ mainFileName \in st.layers[gs].contents[ln]
            /\ Exists(st, PathOf(gs, ln, mainFileName))}

getGlyphLayerData(st, gs, glyphName) ==
    LET mainPath == st.contents[gs][glyphName]
        mainFileName == Basename(mainPath)
    IN  [ln \in GlyphLayerNames(st, gs, glyphName) |->
            IF ln = "foreground"
            THEN st.files[mainPath].data
            ELSE st.files[PathOf(gs, ln, mainFileName)].data]

\* The body of the first loop, which writes the file whatever it holds
PutOneLayerAlways(st, gs, mainFileName, layerName, layerGlyph, now) ==
    LET layerPath ==
            IF layerName = "foreground"
            THEN PathOf(gs, MainDir, mainFileName)
            ELSE PathOf(gs, layerName, mainFileName)
        isNewLayer == layerName \notin DOMAIN st.layers[gs].contents
        st1 ==
            IF layerName = "foreground" THEN st
            ELSE [st EXCEPT
                    !.layers[gs] =
                        [keys |-> IF isNewLayer THEN Append(@.keys, layerName) ELSE @.keys,
                         contents |-> MapPut(@.contents, layerName,
                                        LayerContents(st, gs, layerName) \cup {mainFileName})],
                    !.dirs = IF isNewLayer THEN @ \cup {<<gs, layerName>>} ELSE @]
        newData == asGLIFData(layerGlyph)
    IN  registerWrittenPath(WriteBytes(st1, layerPath, newData, now), layerPath, FALSE)

\* The body of the first loop, which writes the file of a layer and leaves
\* self.layers as it was
PutOneLayerNoIndex(st, gs, mainFileName, layerName, layerGlyph, now) ==
    LET layerPath ==
            IF layerName = "foreground"
            THEN PathOf(gs, MainDir, mainFileName)
            ELSE PathOf(gs, layerName, mainFileName)
        st1 == IF layerName = "foreground" THEN st
               ELSE [st EXCEPT !.dirs = @ \cup {<<gs, layerName>>}]
        existingData == IF Exists(st1, layerPath) THEN Some(st1.files[layerPath].data) ELSE None
        newData == asGLIFData(layerGlyph)
    IN  IF Some(newData) # existingData
        THEN registerWrittenPath(WriteBytes(st1, layerPath, newData, now), layerPath, FALSE)
        ELSE st1

\* The body of the first loop of putGlyphLayerData for one layer: the layer
\* is entered in self.layers (a new layer with its directory), and the file
\* is written and reported when its bytes differ from what is there.
PutOneLayer(st, gs, mainFileName, layerName, layerGlyph, now) ==
    LET layerPath ==
            IF layerName = "foreground"
            THEN PathOf(gs, MainDir, mainFileName)
            ELSE PathOf(gs, layerName, mainFileName)
        isNewLayer == layerName \notin DOMAIN st.layers[gs].contents
        st1 ==
            IF layerName = "foreground" THEN st
            ELSE [st EXCEPT
                    !.layers[gs] =
                        [keys |-> IF isNewLayer THEN Append(@.keys, layerName) ELSE @.keys,
                         contents |-> MapPut(@.contents, layerName,
                                        LayerContents(st, gs, layerName) \cup {mainFileName})],
                    !.dirs = IF isNewLayer THEN @ \cup {<<gs, layerName>>} ELSE @]
        existingData == IF Exists(st1, layerPath) THEN Some(st1.files[layerPath].data) ELSE None
        newData == asGLIFData(layerGlyph)
    IN  IF Some(newData) # existingData
        THEN registerWrittenPath(WriteBytes(st1, layerPath, newData, now), layerPath, FALSE)
        ELSE st1

RECURSIVE PutLayers(_, _, _, _, _, _)
PutLayers(st, gs, mainFileName, layerGlyphs, todo, now) ==
    IF todo = {} THEN st
    ELSE LET layerName == CHOOSE ln \in todo : TRUE
         IN  Then(PutOneLayer(st, gs, mainFileName, layerName,
                              layerGlyphs[layerName], now),
                  LAMBDA st1 : PutLayers(st1, gs, mainFileName, layerGlyphs,
                                         todo \ {layerName}, now))

\* The second loop's body with the file left on disk
DeleteUnusedLayerNoUnlink(st, gs, mainFileName, layerName) ==
    LET layerPath == PathOf(gs, layerName, mainFileName)
        st2 == registerWrittenPath(st, layerPath, TRUE)
    IN  [st2 EXCEPT !.layers[gs].contents[layerName] = @ \ {mainFileName}]

\* The body of the second loop of putGlyphLayerData for one layer that the
\* glyph no longer uses.
DeleteUnusedLayer(st, gs, mainFileName, layerName) ==
    LET layerPath == PathOf(gs, layerName, mainFileName)
        st1 == IF Exists(st, layerPath) THEN Unlink(st, layerPath) ELSE st
        st2 == registerWrittenPath(st1, layerPath, TRUE)
    IN  [st2 EXCEPT !.layers[gs].contents[layerName] = @ \ {mainFileName}]

RECURSIVE DeleteUnusedLayers(_, _, _, _)
DeleteUnusedLayers(st, gs, mainFileName, todo) ==
    IF todo = {} THEN st
    ELSE LET layerName == CHOOSE ln \in todo : TRUE
         IN  Then(DeleteUnusedLayer(st, gs, mainFileName, layerName),
                  LAMBDA st1 : DeleteUnusedLayers(st1, gs, mainFileName,
                                                  todo \ {layerName}))

\* RCJKGlyphSet.putGlyphLayerData
putGlyphLayerData(st, gs, glyphName, layerGlyphs, now) ==
    LET isNew == glyphName \notin DOMAIN st.contents[gs]
        mainFileName ==
            IF isNew THEN userNameToFileName(glyphName)
            ELSE Basename(st.contents[gs][glyphName])
        st1 ==
            IF isNew
            THEN [st EXCEPT
                    !.contents[gs] = MapPut(@, glyphName, PathOf(gs, MainDir, mainFileName)),
                    !.glifFileNames[gs] = MapPut(@, mainFileName, glyphName)]
            ELSE st
        usedLayerNames == DOMAIN layerGlyphs \ {"foreground"}
        unused(st2) ==
            {ln \in DOMAIN st2.layers[gs].contents :
                ln \notin usedLayerNames /\ mainFileName \in st2.layers[gs].contents[ln]}
    IN  Then(PutLayers(st1, gs, mainFileName, layerGlyphs, DOMAIN layerGlyphs, now),
             LAMBDA st2 : DeleteUnusedLayers(st2, gs, mainFileName, unused(st2)))

\* The unlink loop of RCJKGlyphSet.deleteGlyph: Path.unlink raises
\* FileNotFoundError on a missing file and the loop ends there.
RECURSIVE UnlinkAll(_, _)
UnlinkAll(st, paths) ==
    IF paths = <<>> THEN [st |-> st, error |-> ""]
    ELSE IF ~Exists(st, Head(paths)) THEN [st |-> st, error |-> "FileNotFoundError"]
    ELSE Then(registerWrittenPath(Unlink(st, Head(paths)), Head(paths), TRUE),
              LAMBDA st1 : UnlinkAll(st1, Tail(paths)))

\* RCJKGlyphSet.deleteGlyph, which leaves the layer files in place
GlyphSetDeleteMainOnly(st, gs, glyphName) ==
    LET mainPath == st.contents[gs][glyphName]
    IN  UnlinkAll([st EXCEPT !.contents[gs] = MapDel(@, glyphName)], <<mainPath>>)

\* RCJKGlyphSet.deleteGlyph
GlyphSetDeleteGlyph(st, gs, glyphName) ==
    LET mainPath == st.contents[gs][glyphName]
        mainFileName == Basename(mainPath)
        keys == st.layers[gs].keys
        hit == SelectSeq(keys, LAMBDA ln : mainFileName \in st.layers[gs].contents[ln])
        pathsToDelete ==
            <<mainPath>> \o [i \in 1..Len(hit) |-> PathOf(gs, hit[i], mainFileName)]
        st1 == [st EXCEPT
                  !.contents[gs] = MapDel(@, glyphName),
                  !.layers[gs].contents =
                      [ln \in DOMAIN @ |-> @[ln] \ {mainFileName}]]
    IN  UnlinkAll(st1, pathsToDelete)

\* RCJKGlyphSet.exists
GlyphSetExists(ds, gs) == <<gs, MainDir>> \in ds

\* RCJKGlyphSet.setupLayers: the layer directories that hold glyph files,
\* in sorted order, each with the names of its files.
setupLayers(fs, ds, gs) ==
    LET holds(d) == <<gs, d>> \in ds /\ \E p \in DOMAIN fs : p[1] = gs /\ p[2] = d
        keys == IF GlyphSetExists(ds, gs)
                THEN SelectSeq(SortedLayerDirs, holds) ELSE <<>>
    IN  [keys |-> keys,
         contents |-> [d \in {keys[i] : i \in 1..Len(keys)} |->
                          {p[3] : p \in {q \in DOMAIN fs : q[1] = gs /\ q[2] = d}}]]

\* RCJKGlyphSet.getGlyphMap: the three maps it builds from the main files.
MainPaths(fs, gs) == {p \in DOMAIN fs : p[1] = gs /\ p[2] = MainDir}

GlyphSetNamesOnDisk(fs, gs) ==
    {extractGlyphNameAndCodePoints(fs[p].data)[1] : p \in MainPaths(fs, gs)}

getGlyphMap(fs, gs, ignoreCodePoints) ==
    LET pathOfName(n) ==
            CHOOSE p \in MainPaths(fs, gs) : extractGlyphNameAndCodePoints(fs[p].data)[1] = n
    IN  [glyphMap |->
            [n \in GlyphSetNamesOnDisk(fs, gs) |->
                IF ignoreCodePoints THEN <<>>
                ELSE extractGlyphNameAndCodePoints(fs[pathOfName(n)].data)[2]],
         contents |-> [n \in GlyphSetNamesOnDisk(fs, gs) |-> pathOfName(n)],
         glifFileNames |->
            [f \in {p[3] : p \in MainPaths(fs, gs)} |->
                extractGlyphNameAndCodePoints(fs[PathOf(gs, MainDir, f)].data)[1]]]

----------------------------------------------------------------------------
(* Case-fold repair *)

\* str.casefold on the layer names of the model: the names with capital
\* letters fold to the lower-case name, every other name to itself.
CaseFold(layerName) ==
    CASE layerName \in {"AB", "Ab"} -> "ab"
      [] layerName = "Foreground" -> "foreground"
      [] OTHER -> layerName

\* _fudgeLayerNames, first part: the layer names the variation descriptors
\* of the foreground name, and those of them that are no key of layerGlyphs.
usedLayerNamesOf(layerGlyphs) ==
    LET vgs == layerGlyphs["foreground"].lib.variationGlyphs
    IN  {vgs[i].layerName : i \in 1..Len(vgs)} \ {""}

missingLayerNamesOf(layerGlyphs) == usedLayerNamesOf(layerGlyphs) \ DOMAIN layerGlyphs

\* The layer availableLayerNames gives for a folded name: of the present
\* layers that fold to it the last in the order of the dict.
AvailableLayers(layerGlyphs, layerOrder, folded) ==
    LET position(ln) == CHOOSE i \in 1..Len(layerOrder) : layerOrder[i] = ln
    IN  {ln \in DOMAIN layerGlyphs :
            /\ CaseFold(ln) = folded
            /\ \A other \in DOMAIN layerGlyphs :
                   CaseFold(other) = folded => position(other) <= position(ln)}

\* The renaming that enters the record under the missing name as well and
\* keeps the key it had
renameLayersKeepingOld(layerGlyphs, layerOrder) ==
    LET missing == missingLayerNamesOf(layerGlyphs)
        found == {m \in missing : AvailableLayers(layerGlyphs, layerOrder, CaseFold(m)) # {}}
        source(m) == CHOOSE ln \in AvailableLayers(layerGlyphs, layerOrder, CaseFold(m)) : TRUE
    IN  [k \in DOMAIN layerGlyphs \cup found |->
            IF k \in DOMAIN layerGlyphs THEN layerGlyphs[k] ELSE layerGlyphs[source(k)]]

\* _fudgeLayerNames, last part (renameMap): every present layer that is
\* available for the folded form of a missing name gets that name as its key.
renameLayers(layerGlyphs, layerOrder) ==
    LET missing == missingLayerNamesOf(layerGlyphs)
        renamed == {ln \in DOMAIN layerGlyphs :
                       \E m \in missing :
                           ln \in AvailableLayers(layerGlyphs, layerOrder, CaseFold(m))}
        renameMap(ln) ==
            IF ln \in renamed
            THEN CHOOSE m \in missing :
                     ln \in AvailableLayers(layerGlyphs, layerOrder, CaseFold(m))
            ELSE ln
        keyOf(k) == CHOOSE ln \in DOMAIN layerGlyphs : renameMap(ln) = k
    IN  [k \in {renameMap(ln) : ln \in DOMAIN layerGlyphs} |-> layerGlyphs[keyOf(k)]]

\* _fudgeLayerNames without the test for names that fold alike
fudgeLayerNamesUnguarded(glyphName, layerGlyphs, layerOrder) ==
    IF missingLayerNamesOf(layerGlyphs) = {} THEN layerGlyphs
    ELSE renameLayers(layerGlyphs, layerOrder)

\* _fudgeLayerNames.  layerOrder is the order of the keys of layerGlyphs (a
\* dict): of two present layers that fold alike the later one is taken.
fudgeLayerNames(glyphName, layerGlyphs, layerOrder) ==
    IF missingLayerNamesOf(layerGlyphs) = {} THEN layerGlyphs
    ELSE IF Cardinality(usedLayerNamesOf(layerGlyphs))
                # Cardinality({CaseFold(ln) : ln \in usedLayerNamesOf(layerGlyphs)})
    THEN layerGlyphs
    ELSE renameLayers(layerGlyphs, layerOrder)

----------------------------------------------------------------------------
(* The glyph layer cache and the backend's read path *)

\* RCJKBackend._iterGlyphSets and the lookup of the glyph set holding a name
HoldingSets(st, glyphName) ==
    SelectSeq(glyphSetNames, LAMBDA gs : InGlyphSet(st, gs, glyphName))

\* The order of the keys of the dict _populateGlyphCache builds from
\* getGlyphLayerData: foreground, then the layers in the order of self.layers.
LayerOrderOf(st, gs, glyphName) ==
    <<"foreground">> \o
    SelectSeq(st.layers[gs].keys, LAMBDA ln : ln \in GlyphLayerNames(st, gs, glyphName))

\* RCJKBackend._populateGlyphCache (with _getLayerGLIFData).  c is the cache
\* with the error raised so far ("" for none) and the names of the glyphs
\* whose files were read and decoded so far (reads); an error ends the
\* population and leaves the entries made before it.
RECURSIVE populateGlyphCache(_, _, _)
RECURSIVE PopulateComponents(_, _, _)
RECURSIVE PopulateComponentsApart(_, _, _)

\* The loop over the components with every component populated from the
\* cache as it was before the loop
PopulateComponentsApart(c, st, names) ==
    IF names = <<>> THEN c
    ELSE Then(populateGlyphCache(c, st, Head(names)),
              LAMBDA first :
                 Then(PopulateComponentsApart(c, st, Tail(names)),
                      LAMBDA rest :
                         [cache |-> MapMerge(first.cache, rest.cache),
                          error |-> IF first.error # "" THEN first.error ELSE rest.error,
                          reads |-> first.reads \o
                                    SubSeq(rest.reads, Len(c.reads) + 1, Len(rest.reads))]))

\* The loop over the components left out
PopulateComponentsNone(c, st, names) == c

populateGlyphCache(c, st, glyphName) ==
    IF c.error # "" \/ glyphName \in DOMAIN c.cache \/ HoldingSets(st, glyphName) = <<>>
    THEN c
    ELSE LET gs == Head(HoldingSets(st, glyphName))
         IN  IF ~Exists(st, st.contents[gs][glyphName])
             THEN [c EXCEPT !.error = "FileNotFoundError"]
             ELSE LET decode(data) == [ln \in DOMAIN data |-> fromGLIFData(data[ln])]
                      populate(layerGlyphs) ==
                          LET c1 == [c EXCEPT !.cache = MapPut(@, glyphName, layerGlyphs),
                                              !.reads = Append(@, glyphName)]
                          IN  IF "foreground" \notin DOMAIN layerGlyphs
                              THEN [c1 EXCEPT !.error = "KeyError"]
                              ELSE PopulateComponents(c1, st,
                                       getComponentNames(layerGlyphs["foreground"]))
                  IN  populate(fudgeLayerNames(glyphName,
                                   decode(getGlyphLayerData(st, gs, glyphName)),
                                   LayerOrderOf(st, gs, glyphName)))

PopulateComponents(c, st, names) ==
    IF names = <<>> THEN c
    ELSE PopulateComponents(populateGlyphCache(c, st, Head(names)), st, Tail(names))

\* The axes of the designspace (self.designspace.axes.axes) where glyphs
\* are read: the project opened has no font axes, and the specifications
\* with getGlyph have no putAxes.
designspaceAxes == <<>>

\* RCJKBackend._getLayerGlyphs on the cache cacheDict with the timer state
\* timer: the cached records of a glyph, read from disk on a miss.  Returns
\* the cache, the timer (updateTimeOut leaves a timer pending), whether
\* updateTimeOut was called (updated), the records (None with an error) and
\* the error raised.
getLayerGlyphs(cacheDict, timer, st, glyphName) ==
    IF glyphName \in DOMAIN cacheDict
    THEN [cache |-> cacheDict, timerPending |-> timer, updated |-> FALSE,
          value |-> Some(cacheDict[glyphName]), error |-> ""]
    ELSE Then(populateGlyphCache([cache |-> cacheDict, error |-> "", reads |-> <<>>],
                                 st, glyphName),
              LAMBDA c :
                 IF c.error # ""
                 THEN [cache |-> c.cache, timerPending |-> timer, updated |-> FALSE,
                       value |-> None, error |-> c.error]
                 ELSE IF glyphName \notin DOMAIN c.cache
                 THEN [cache |-> c.cache, timerPending |-> TRUE, updated |-> TRUE,
                       value |-> None, error |-> "KeyError"]
                 ELSE [cache |-> c.cache, timerPending |-> TRUE, updated |-> TRUE,
                       value |-> Some(c.cache[glyphName]), error |-> ""])

\* RCJKBackend.getGlyph: the state of the cache it leaves, and what it
\* returns (ret) or raises (error).  A KeyError of _getLayerGlyphs is
\* caught and gives None.
getGlyph(cacheDict, timer, st, glyphName) ==
    Then(getLayerGlyphs(cacheDict, timer, st, glyphName),
         LAMBDA r :
            LET out == [cache |-> r.cache, timerPending |-> r.timerPending,
                        ret |-> None, error |-> ""]
            IN  IF r.error = "KeyError" THEN out
                ELSE IF r.error # "" THEN [out EXCEPT !.error = r.error]
                ELSE IF "foreground" \notin DOMAIN r.value[1]
                THEN [out EXCEPT !.error = "KeyError"]
                ELSE [out EXCEPT !.ret =
                        Some(buildVariableGlyphFromLayerGlyphs(r.value[1],
                                                               designspaceAxes))])

\* getGlyphSetForGlyph without a look at the glyph sets
getGlyphSetForGlyphAlwaysDefault(st, glyphName) == "characterGlyph"

\* RCJKBackend.getGlyphSetForGlyph
getGlyphSetForGlyph(st, glyphName) ==
    IF InGlyphSet(st, "atomicElement", glyphName) THEN "atomicElement"
    ELSE IF InGlyphSet(st, "deepComponent", glyphName) THEN "deepComponent"
    ELSE "characterGlyph"

\* The axis of the name n among axes
AxisNamed(axes, n) == CHOOSE a \in {axes[i] : i \in 1..Len(axes)} : a.name = n

\* fontra.core.classes: the mapping of an axis, a list of (user value,
\* source value) pairs, empty when the axis has none
AxisMapping(axis) == IF "mapping" \in DOMAIN axis THEN axis.mapping ELSE <<>>

\* fontTools piecewiseLinearMap on a value the mapping lists (the values of
\* the model are listed ones); no mapping leaves the value as it is
MapValue(mapping, v) ==
    IF \E i \in 1..Len(mapping) : mapping[i][1] = v
    THEN mapping[CHOOSE i \in 1..Len(mapping) : mapping[i][1] = v][2]
    ELSE v

\* fontra.core.classes.mapLocationFromUserToSource: every value goes
\* through the mapping of its axis
mapLocationFromUserToSource(location, axes) ==
    [n \in DOMAIN location |-> MapValue(AxisMapping(AxisNamed(axes, n)), location[n])]

\* The body of RCJKBackend._defaultLocation for the font axes axes
defaultLocationOf(axes) ==
    mapLocationFromUserToSource(
        [n \in {axes[i].name : i \in 1..Len(axes)} |-> AxisNamed(axes, n).defaultValue],
        axes)

\* RCJKBackend._defaultLocation, a cached_property: the value kept from
\* the first use if there is one, the body's value otherwise
defaultLocationProperty(cached, ds) ==
    IF cached # None THEN cached[1] ELSE defaultLocationOf(ds.axes.axes)

\* RCJKBackend._defaultLocation on the project opened, which has no font axes
defaultLocation == defaultLocationOf(designspaceAxes)

\* putGlyph: the font's default location overlaid with the glyph's axis defaults
localDefaultLocationAt(fontLocation, glyph) ==
    MapMerge(fontLocation,
             [n \in {glyph.axes[i].name : i \in 1..Len(glyph.axes)} |->
                 AxisNamed(glyph.axes, n).defaultValue])

localDefaultLocation(glyph) == localDefaultLocationAt(defaultLocation, glyph)

----------------------------------------------------------------------------
(* The glyphs the calls are made with, and the project the backend opens *)

Source(name, layerName, location) ==
    [name |-> name, layerName |-> layerName, location |-> location]

StaticGlyph(xAdvance, components) == [xAdvance |-> xAdvance, components |-> components]

DefaultSource == Source("<default>", "foreground", EmptyMap)

WghtAxis == [name |-> "wght", defaultValue |-> 0]

\* One layer, no axes.
GlyphPlain ==
    [name |-> "", axes |-> <<>>, sources |-> <<DefaultSource>>,
     layers |-> [foreground |-> StaticGlyph(3, <<>>)],
     customData |-> {}]

\* Two sources on a glyph axis, a component in both layers.
GlyphBold ==
    [name |-> "", axes |-> <<WghtAxis>>,
     sources |-> <<DefaultSource, Source("bold", "bold", [wght |-> 1])>>,
     layers |-> [foreground |-> StaticGlyph(1, <<"d">>), bold |-> StaticGlyph(2, <<"d">>)],
     customData |-> {}]

\* Another second layer, and custom data.
GlyphLight ==
    [name |-> "", axes |-> <<>>,
     sources |-> <<DefaultSource, Source("light", "light", EmptyMap)>>,
     layers |-> [foreground |-> StaticGlyph(1, <<"a">>), light |-> StaticGlyph(2, <<>>)],
     customData |-> {"fontra.glyph.locked"}]

\* A glyph as an editor may build it (tests/test_font.py, test_new_glyph):
\* the default source has a name and a layer of its own.
GlyphNamedDefault ==
    [name |-> "", axes |-> <<>>,
     sources |-> <<Source("default", "default", EmptyMap), Source("bold", "bold", EmptyMap)>>,
     layers |-> [default |-> StaticGlyph(1, <<>>), bold |-> StaticGlyph(2, <<>>)],
     customData |-> {}]

\* The (glyph, code points) pairs putGlyph is called with.
PutInputs ==
    {<<GlyphPlain, <<>> >>, <<GlyphBold, <<97>> >>, <<GlyphLight, <<97>> >>,
     <<GlyphNamedDefault, <<>> >>}

Named(template, glyphName) == [template EXCEPT !.name = glyphName]

\* The glyph files of the project directory the backend is opened on: the
\* character glyph "a" with the layers foreground and bold, a lib entry no
\* variable glyph has a place for, and the component "d", which is held by
\* the glyph set auxSet.
ProjectFiles(auxSet) ==
    LET a == buildLayerGlyphsFromVariableGlyph("a", GlyphBold, <<97>>,
                 localDefaultLocation(GlyphBold), EmptyMap)
        fgA == [a["foreground"] EXCEPT !.lib.foreign = {"xyz.fontra.something.nothing"}]
        dd == buildLayerGlyphsFromVariableGlyph("d", GlyphPlain, <<>>,
                 localDefaultLocation(GlyphPlain), EmptyMap)
        file(g) == [data |-> asGLIFData(g), mtime |-> 0]
    IN  (PathOf("characterGlyph", MainDir, "a.glif") :> file(fgA)) @@
        (PathOf("characterGlyph", "bold", "a.glif") :> file(a["bold"])) @@
        (PathOf(auxSet, MainDir, "d.glif") :> file(dd["foreground"]))

ProjectDirs(auxSet) ==
    {<<"", MainDir>>, <<"characterGlyph", MainDir>>, <<"characterGlyph", "bold">>,
     <<auxSet, MainDir>>}

----------------------------------------------------------------------------
(* RCJKBackend.__init__ on an existing project directory *)

OpenContents(fs, ds) ==
    [gs \in GlyphSets |-> getGlyphMap(fs, gs, gs # "characterGlyph").contents]

OpenGlifFileNames(fs, ds) ==
    [gs \in GlyphSets |-> getGlyphMap(fs, gs, gs # "characterGlyph").glifFileNames]

OpenLayers(fs, ds) == [gs \in GlyphSets |-> setupLayers(fs, ds, gs)]

\* self._glyphMap: the glyph maps of the three sets, which share no name
OpenGlyphMap(fs, ds) ==
    LET maps == [gs \in GlyphSets |-> getGlyphMap(fs, gs, gs # "characterGlyph").glyphMap]
    IN  [n \in UNION {DOMAIN maps[gs] : gs \in GlyphSets} |->
            maps[CHOOSE gs \in GlyphSets : n \in DOMAIN maps[gs]][n]]

----------------------------------------------------------------------------
(* The designspace and its file *)

DS_FILENAME == "designspace.json"

FEA_FILENAME == "features.fea"

\* self.path / name: a file of the project directory itself
RootPath(name) == PathOf("", MainDir, name)

\* fontra.core.classes.Font(): the designspace of a project without a
\* designspace file
DefaultFont ==
    [unitsPerEm |-> 1000, fontInfo |-> [familyName |-> None],
     sources |-> EmptyMap, axes |-> [axes |-> <<>>]]

DesignspaceFields == {"unitsPerEm", "fontInfo", "sources", "axes"}

\* A JSON object as the file holds it: the members in the order written,
\* each a <<key, value>> pair.
Member(doc, key) == CHOOSE i \in 1..Len(doc) : doc[i][1] = key

HasMember(doc, key) == \E i \in 1..Len(doc) : doc[i][1] = key

\* unstructureDesignspaceData: the JSON object of a designspace
unstructureDesignspaceData(ds) ==
    <<<<"unitsPerEm", ds.unitsPerEm>>, <<"fontInfo", ds.fontInfo>>,
      <<"sources", ds.sources>>, <<"axes", ds.axes>>>>

\* structureDesignspaceData: the designspace of a JSON object; a member
\* the object lacks has the value it has in Font()
structureDesignspaceData(doc) ==
    [f \in DesignspaceFields |->
        IF HasMember(doc, f) THEN doc[Member(doc, f)][2] ELSE DefaultFont[f]]

\* json.dumps of a JSON object: the text, token by token
jsonDumps(doc) == <<<<"{">>>> \o doc \o <<<<"}">>>>

\* The text is a whole JSON object: a text cut short is not.
WellFormed(text) ==
    Len(text) >= 2 /\ text[1] = <<"{">> /\ text[Len(text)] = <<"}">>

\* json.loads of a well-formed text
jsonLoads(text) == SubSeq(text, 2, Len(text) - 1)

\* __init__: the designspace a backend opened on the directory has; with a
\* designspace file that is no JSON object json.loads raises and there is
\* no backend.
OpenDesignspace(fs) ==
    IF RootPath(DS_FILENAME) \notin DOMAIN fs THEN DefaultFont
    ELSE IF WellFormed(fs[RootPath(DS_FILENAME)].data)
    THEN structureDesignspaceData(jsonLoads(fs[RootPath(DS_FILENAME)].data))
    ELSE [error |-> "JSONDecodeError"]

\* RCJKBackend._writeDesignspace
writeDesignspace(st, ds, now) ==
    WriteBytes(st, RootPath(DS_FILENAME), jsonDumps(unstructureDesignspaceData(ds)), now)

----------------------------------------------------------------------------
(* The custom data and its file *)

FONTLIB_FILENAME == "fontLib.json"

\* The keys of custom data the model uses, in the order json.dumps meets
\* them.
CustomDataKeys == <<"fontra.sourceStatusFieldDefinitions", "xyz.fontra.test">>

\* base.standardCustomDataItems as the module defines it: the status
\* definitions, a list.
StandardItems == [k \in {CustomDataKeys[1]} |-> <<"Accepted">>]

\* The JSON object of a dict, and the dict of a JSON object
ObjectOf(dict) ==
    LET keys == SelectSeq(CustomDataKeys, LAMBDA k : k \in DOMAIN dict)
    IN  [i \in 1..Len(keys) |-> <<keys[i], dict[keys[i]]>>]

DictOf(doc) == [k \in {doc[i][1] : i \in 1..Len(doc)} |-> doc[Member(doc, k)][2]]

\* The dict fontLib.json holds, empty without the file
fontLib(st) ==
    IF Exists(st, RootPath(FONTLIB_FILENAME))
    THEN DictOf(jsonLoads(st.files[RootPath(FONTLIB_FILENAME)].data))
    ELSE EmptyMap

\* getCustomData without the deepcopy: the values of the built-in entries
\* the file does not override are the module's own objects
getCustomDataShared(std, st) ==
    [value |-> MapMerge(std, fontLib(st)), shared |-> DOMAIN std \ DOMAIN fontLib(st)]

\* RCJKBackend.getCustomData: the dict returned, and the keys whose value
\* is an object the module's built-in entries hold as well (none: the
\* built-in entries are copied)
getCustomData(std, st) ==
    [value |-> MapMerge(std, fontLib(st)), shared |-> {}]

\* RCJKBackend.putCustomData
putCustomData(st, customData, now) ==
    WriteBytes(st, RootPath(FONTLIB_FILENAME), jsonDumps(ObjectOf(customData)), now)

NoCall ==
    [op |-> "open", name |-> "", glyph |-> None, codePoints |-> <<>>,
     ret |-> None, error |-> "", message |-> <<>>,
     discarded |-> {}, popped |-> {}, hadCache |-> FALSE, invoked |-> 0,
     arg |-> None]

\* _fileWatcherCallback is not running: no reload pattern, no callback to
\* call next (next = 0), no callback called.
NoDelivery == [pattern |-> None, next |-> 0, calls |-> <<>>]

\* No step of the project manager yet.
NoManagerStep == [op |-> "", token |-> None, handler |-> 0, ret |-> None, error |-> ""]

\* RCJKProjectManager.__init__: no authorized client.
ManagerInit(readOnly, groupsList) ==
    /\ managerReadOnly = readOnly
    /\ userGroups = groupsList
    /\ rcjkClients = <<>>
    /\ authorizedClients = EmptyMap
    /\ clientObjects = EmptyMap
    /\ fontHandlerObjects = <<>>
    /\ calls = EmptyBag
    /\ issuedTokens = {}
    /\ loggedOutTokens = {}
    /\ managerResult = NoManagerStep

\* The state after RCJKBackend.__init__ on a directory with the files fs
\* and the directories ds.
InitBackend(fs, ds) ==
        /\ files = fs
        /\ dirs = ds
        /\ clock = 1
        /\ contents = OpenContents(files, dirs)
        /\ glifFileNames = OpenGlifFileNames(files, dirs)
        /\ layers = OpenLayers(files, dirs)
        /\ glyphMap = OpenGlyphMap(files, dirs)
        /\ cache = EmptyMap
        /\ timerPending = FALSE
        /\ recentlyWrittenPaths = EmptyMap
        /\ fileWatcherCallbacks = 0
        /\ pendingEvents = <<>>
        /\ result = NoCall
        /\ opCount = 0
        /\ extCount = 0
        /\ repeated = FALSE
        /\ deletedGlyphs = {}
        /\ watcherClosed = FALSE
        /\ delivery = NoDelivery
        /\ designspace = OpenDesignspace(files)
        /\ writing = None
        /\ standardCustomDataItems = StandardItems
        /\ cachedDefaultLocation = None

\* The backend opened on a directory, beside a project manager nobody has
\* logged in to.
InitOnDisk(fs, ds) == InitBackend(fs, ds) /\ ManagerInit(FALSE, None)

InitOn(auxSet) == InitOnDisk(ProjectFiles(auxSet), ProjectDirs(auxSet))

Init == InitOn("deepComponent")

----------------------------------------------------------------------------
(* Opening a backend: fromPath and createFromPath *)

\* The names some glyph set finds more than once on the disk.
RepeatedNames(fs) ==
    {n \in GlyphNames :
        Cardinality({gs \in GlyphSets : n \in GlyphSetNamesOnDisk(fs, gs)}) > 1}

\* __init__ from the designspace on, with the glyph map filled in without
\* the assert: of two sets holding a name the later one gives the entry
initLoadNoAssert(fs, ds) ==
    IF "error" \in DOMAIN OpenDesignspace(fs)
    THEN [error |-> "JSONDecodeError", files |-> fs, dirs |-> ds]
    ELSE [error |-> "", files |-> fs, dirs |-> ds,
          contents |-> OpenContents(fs, ds),
          glifFileNames |-> OpenGlifFileNames(fs, ds),
          layers |-> OpenLayers(fs, ds),
          glyphMap |->
              [n \in UNION {GlyphSetNamesOnDisk(fs, gs) : gs \in GlyphSets} |->
                  IF n \in GlyphSetNamesOnDisk(fs, "atomicElement")
                        \cup GlyphSetNamesOnDisk(fs, "deepComponent")
                  THEN <<>>
                  ELSE getGlyphMap(fs, "characterGlyph", FALSE).glyphMap[n]],
          designspace |-> OpenDesignspace(fs)]

\* __init__ from the designspace on: the designspace is read (json.loads
\* raises on a text that is no JSON document), and the glyph map is filled
\* from the three glyph sets, with the assert that no name comes twice.
initLoad(fs, ds) ==
    IF "error" \in DOMAIN OpenDesignspace(fs)
    THEN [error |-> "JSONDecodeError", files |-> fs, dirs |-> ds]
    ELSE IF RepeatedNames(fs) # {}
    THEN [error |-> "AssertionError", files |-> fs, dirs |-> ds]
    ELSE [error |-> "", files |-> fs, dirs |-> ds,
          contents |-> OpenContents(fs, ds),
          glifFileNames |-> OpenGlifFileNames(fs, ds),
          layers |-> OpenLayers(fs, ds),
          glyphMap |-> OpenGlyphMap(fs, ds),
          designspace |-> OpenDesignspace(fs)]

\* What create=True does to the disk first: the directory is removed with
\* all it holds and made anew with its characterGlyph directory.
CreatedDirs == {<<"", MainDir>>, <<"characterGlyph", MainDir>>}

\* __init__ with the characterGlyph directory made in any case
initMakesDir(fs, ds, create) ==
    initLoad(IF create THEN EmptyMap ELSE fs,
             IF create THEN CreatedDirs ELSE ds \cup {<<"characterGlyph", MainDir>>})

\* RCJKBackend.__init__: the error raised ("" for none), the disk it
\* leaves and, without an error, the fields of the backend.
init(fs, ds, create) ==
    LET fs1 == IF create THEN EmptyMap ELSE fs
        ds1 == IF create THEN CreatedDirs ELSE ds
    IN  IF ~GlyphSetExists(ds1, "characterGlyph")
        THEN [error |-> "TypeError", files |-> fs1, dirs |-> ds1]
        ELSE initLoad(fs1, ds1)

\* No constructor has run yet.
NotOpened == [NoCall EXCEPT !.op = "none"]

\* A constructor has returned a backend.
Opened == result.op # "none" /\ ~(result.op = "open" /\ result.error # "")

\* RCJKBackend.fromPath / createFromPath on the directory
Construct(create) ==
    /\ result = NotOpened
    /\ \E r \in {init(files, dirs, create)} :
          /\ files' = r.files
          /\ dirs' = r.dirs
          /\ result' = [NoCall EXCEPT !.error = r.error, !.arg = Some(create)]
          /\ IF r.error # ""
             THEN UNCHANGED <<contents, glifFileNames, layers, glyphMap, designspace>>
             ELSE /\ contents' = r.contents
                  /\ glifFileNames' = r.glifFileNames
                  /\ layers' = r.layers
                  /\ glyphMap' = r.glyphMap
                  /\ designspace' = r.designspace
    /\ UNCHANGED <<clock, cache, timerPending, recentlyWrittenPaths, fileWatcherCallbacks,
                   pendingEvents, opCount, extCount, repeated, deletedGlyphs,
                   notifyVars, managerVars, writing, standardCustomDataItems,
                   cachedDefaultLocation>>

\* RCJKBackend.fromPath
FromPath == Construct(FALSE)

\* RCJKBackend.createFromPath
CreateFromPath == Construct(TRUE)

\* The directories a backend is opened on.  One glyph "a" whose main file
\* refers to the layers of the set used and whose file is there in the
\* layer directories of the set present, each layer with a width of its own.
ReferencedNames == {"AB", "Ab", "bold", "Foreground"}

PresentNames == {"AB", "Ab", "ab", "bold"}

LayerIndex(layerName) == CHOOSE i \in 1..Len(SortedLayerDirs) : SortedLayerDirs[i] = layerName

LayeredProject(used, present) ==
    LET usedSeq == SelectSeq(<<"AB", "Ab", "Foreground", "bold">>, LAMBDA n : n \in used)
        fg == [name |-> "a", unicodes |-> <<97>>, xAdvance |-> 1, components |-> <<>>,
               lib |-> [axes |-> <<>>,
                        variationGlyphs |->
                            [i \in 1..Len(usedSeq) |->
                                [layerName |-> usedSeq[i], sourceName |-> usedSeq[i],
                                 location |-> EmptyMap, fontraLayerName |-> ""]],
                        customData |-> {}, foreign |-> {}]]
        layer(d) == [name |-> "a", unicodes |-> <<>>, xAdvance |-> 10 + LayerIndex(d),
                     components |-> <<>>, lib |-> PlainLib({})]
        file(g) == [data |-> asGLIFData(g), mtime |-> 0]
    IN  [files |->
            [p \in {PathOf("characterGlyph", d, "a.glif") : d \in {MainDir} \cup present} |->
                IF p[2] = MainDir THEN file(fg) ELSE file(layer(p[2]))],
         dirs |-> {<<"", MainDir>>, <<"characterGlyph", MainDir>>}
                     \cup {<<"characterGlyph", d>> : d \in present}]

\* The project of the tests; the same with a designspace file cut short;
\* directories without a characterGlyph directory; projects in which two
\* glyph sets hold a glyph of the same name.
OtherProjects ==
    LET std == ProjectFiles("deepComponent")
        stdDirs == ProjectDirs("deepComponent")
        d == std[PathOf("deepComponent", MainDir, "d.glif")]
        other == [data |-> <<"x">>, mtime |-> 0]
    IN  {[files |-> std, dirs |-> stdDirs],
         [files |-> std @@ (RootPath(DS_FILENAME) :> [data |-> <<<<"{">>>>, mtime |-> 0]),
          dirs |-> stdDirs],
         [files |-> EmptyMap, dirs |-> {<<"", MainDir>>}],
         [files |-> (PathOf("deepComponent", MainDir, "d.glif") :> d)
                        @@ (RootPath(FEA_FILENAME) :> other),
          dirs |-> {<<"", MainDir>>, <<"deepComponent", MainDir>>}],
         [files |-> std @@ (PathOf("atomicElement", MainDir, "d.glif") :> d),
          dirs |-> stdDirs \cup {<<"atomicElement", MainDir>>}],
         [files |-> std @@ (PathOf("deepComponent", MainDir, "a.glif")
                                :> std[PathOf("characterGlyph", MainDir, "a.glif")]),
          dirs |-> stdDirs]}

OpenProjects ==
    OtherProjects
    \cup {LayeredProject(u, p) : u \in SUBSET ReferencedNames, p \in SUBSET PresentNames}

\* A directory and no backend on it yet.
InitClosed ==
    /\ \E p \in OpenProjects : files = p.files /\ dirs = p.dirs
    /\ clock = 1
    /\ contents = [gs \in GlyphSets |-> EmptyMap]
    /\ glifFileNames = [gs \in GlyphSets |-> EmptyMap]
    /\ layers = [gs \in GlyphSets |-> [keys |-> <<>>, contents |-> EmptyMap]]
    /\ glyphMap = EmptyMap
    /\ cache = EmptyMap
    /\ timerPending = FALSE
    /\ recentlyWrittenPaths = EmptyMap
    /\ fileWatcherCallbacks = 0
    /\ pendingEvents = <<>>
    /\ result = NotOpened
    /\ opCount = 0
    /\ extCount = 0
    /\ repeated = FALSE
    /\ deletedGlyphs = {}
    /\ watcherClosed = FALSE
    /\ delivery = NoDelivery
    /\ designspace = DefaultFont
    /\ writing = None
    /\ standardCustomDataItems = StandardItems
    /\ cachedDefaultLocation = None
    /\ ManagerInit(FALSE, None)

----------------------------------------------------------------------------
(* The calls *)

\* The glyph-set state a call leaves behind.
SetStore(st) ==
    /\ files' = st.files
    /\ dirs' = st.dirs
    /\ contents' = st.contents
    /\ glifFileNames' = st.glifFileNames
    /\ layers' = st.layers
    /\ recentlyWrittenPaths' = st.ledger
    /\ pendingEvents' = st.events
    /\ clock' = IF st.files # files THEN clock + 1 ELSE clock

StoreUnchanged ==
    UNCHANGED <<files, dirs, contents, glifFileNames, layers, recentlyWrittenPaths,
                pendingEvents, clock>>

\* RCJKBackend.getGlyph
GetGlyph(glyphName) ==
    /\ opCount < MaxOps
    /\ opCount' = opCount + 1
    /\ \E r \in {getGlyph(cache, timerPending, Store, glyphName)} :
           /\ cache' = r.cache
           /\ timerPending' = r.timerPending
           /\ result' = [NoCall EXCEPT !.op = "getGlyph", !.name = glyphName,
                                       !.ret = r.ret, !.error = r.error]
    /\ StoreUnchanged
    /\ repeated' = FALSE
    /\ UNCHANGED <<glyphMap, fileWatcherCallbacks, extCount, deletedGlyphs>>
    /\ UNCHANGED otherVars

\* putGlyph's update of the cache entry, left out
PutGlyphCacheStale(c, glyphName, layerGlyphs) == c

\* putGlyph's update of the cache, dropping the other entries
PutGlyphCacheOnly(c, glyphName, layerGlyphs) == MapPut(EmptyMap, glyphName, layerGlyphs)

\* putGlyph, last line: self._tempGlyphCache[glyphName] = layerGlyphs
PutGlyphCache(c, glyphName, layerGlyphs) == MapPut(c, glyphName, layerGlyphs)

\* RCJKBackend.putGlyph
PutGlyph(glyphName, template, codePoints) ==
    /\ opCount < MaxOps
    /\ opCount' = opCount + 1
    /\ \E r \in {IF glyphName \notin DOMAIN glyphMap
                 THEN [cache |-> cache, timerPending |-> timerPending, updated |-> FALSE,
                       value |-> Some(EmptyMap), error |-> ""]
                 ELSE getLayerGlyphs(cache, timerPending, Store, glyphName)} :
       LET glyph == Named(template, glyphName)
           call == [NoCall EXCEPT !.op = "putGlyph", !.name = glyphName,
                                  !.glyph = Some(glyph), !.codePoints = codePoints]
       IN  IF r.error # ""
           THEN /\ cache' = r.cache
                /\ timerPending' = r.timerPending
                /\ result' = [call EXCEPT !.error = r.error]
                /\ StoreUnchanged
                /\ repeated' = FALSE
                /\ UNCHANGED <<glyphMap, deletedGlyphs, cachedDefaultLocation>>
           ELSE \E layerGlyphs \in
                        {buildLayerGlyphsFromVariableGlyph(glyphName, glyph, codePoints,
                             localDefaultLocationAt(
                                 defaultLocationProperty(cachedDefaultLocation, designspace),
                                 glyph),
                             r.value[1])} :
                LET glyphSet == getGlyphSetForGlyph(Store, glyphName)
                IN  /\ cachedDefaultLocation' =
                           Some(defaultLocationProperty(cachedDefaultLocation, designspace))
                    /\ SetStore(putGlyphLayerData(Store, glyphSet, glyphName,
                                                  layerGlyphs, clock))
                    /\ glyphMap' = MapPut(glyphMap, glyphName, codePoints)
                    /\ cache' = PutGlyphCache(r.cache, glyphName, layerGlyphs)
                    /\ timerPending' = r.timerPending
                    /\ result' = call
                    /\ repeated' = (result = call)
                    /\ deletedGlyphs' = deletedGlyphs \ {glyphName}
    /\ UNCHANGED <<fileWatcherCallbacks, extCount>>
    /\ UNCHANGED <<notifyVars, managerVars, designspace, writing, standardCustomDataItems>>

\* The loop of RCJKBackend.deleteGlyph over the glyph sets holding the name
RECURSIVE DeleteFromSets(_, _, _)
DeleteFromSets(st, sets, glyphName) ==
    IF sets = <<>> THEN [st |-> st, error |-> ""]
    ELSE Then(GlyphSetDeleteGlyph(st, Head(sets), glyphName),
              LAMBDA r : IF r.error # "" THEN r
                         ELSE DeleteFromSets(r.st, Tail(sets), glyphName))

\* A KeyError message that does not name the glyph
DoesNotExistNoName(glyphName) == <<"Glyph does not exist">>

\* The message of the KeyError deleteGlyph raises
DoesNotExist(glyphName) == <<"Glyph '", glyphName, "' does not exist">>

\* RCJKBackend.deleteGlyph
DeleteGlyph(glyphName) ==
    /\ opCount < MaxOps
    /\ opCount' = opCount + 1
    /\ LET call == [NoCall EXCEPT !.op = "deleteGlyph", !.name = glyphName]
       IN  IF glyphName \notin DOMAIN glyphMap
           THEN /\ result' = [call EXCEPT !.error = "KeyError",
                                          !.message = DoesNotExist(glyphName)]
                /\ StoreUnchanged
                /\ UNCHANGED <<glyphMap, deletedGlyphs>>
           ELSE \E r \in {DeleteFromSets(Store, HoldingSets(Store, glyphName), glyphName)} :
                    /\ SetStore(r.st)
                    /\ glyphMap' = IF r.error = "" THEN MapDel(glyphMap, glyphName)
                                   ELSE glyphMap
                    /\ deletedGlyphs' = IF r.error = "" THEN deletedGlyphs \cup {glyphName}
                                        ELSE deletedGlyphs
                    /\ result' = [call EXCEPT !.error = r.error]
    /\ repeated' = FALSE
    /\ UNCHANGED <<cache, timerPending, fileWatcherCallbacks, extCount>>
    /\ UNCHANGED otherVars

\* The expiry of the cache's timer (base.TimedCache): the timer task clears
\* the whole cache.
TimerFires ==
    /\ timerPending
    /\ cache' = EmptyMap
    /\ timerPending' = FALSE
    /\ StoreUnchanged
    /\ UNCHANGED <<glyphMap, fileWatcherCallbacks, result, opCount, extCount,
                   repeated, deletedGlyphs>>
    /\ UNCHANGED otherVars

----------------------------------------------------------------------------
(* The backend as the only writer of its directory *)

Next ==
    \/ \E n \in GlyphNames, inp \in PutInputs : PutGlyph(n, inp[1], inp[2])
    \/ \E n \in GlyphNames : GetGlyph(n)
    \/ \E n \in GlyphNames : DeleteGlyph(n)
    \/ TimerFires

Spec == Init /\ [][Next]_vars

\* Glyphs with layer names that are no directory names: one such layer; two
\* of them; and one together with a layer that has a safe name of its own,
\* the name generated for the other.
GlyphBadLayer ==
    [name |-> "", axes |-> <<>>,
     sources |-> <<DefaultSource, Source(BadLayerName, BadLayerName, EmptyMap)>>,
     layers |-> [ln \in {"foreground", BadLayerName} |->
                    StaticGlyph(IF ln = "foreground" THEN 1 ELSE 2, <<>>)],
     customData |-> {}]

GlyphTwoBadLayers ==
    [name |-> "", axes |-> <<>>,
     sources |-> <<DefaultSource, Source(BadLayerName, BadLayerName, EmptyMap),
                   Source(BadLongLayerName, BadLongLayerName, EmptyMap)>>,
     layers |-> [ln \in {"foreground", BadLayerName, BadLongLayerName} |->
                    StaticGlyph(IF ln = "foreground" THEN 1
                                ELSE IF ln = BadLayerName THEN 2 ELSE 3, <<>>)],
     customData |-> {}]

GlyphBadAndGenerated ==
    [name |-> "", axes |-> <<>>,
     sources |-> <<DefaultSource, Source(BadLayerName, BadLayerName, EmptyMap),
                   Source("generated", makeSafeLayerName(BadLayerName), EmptyMap)>>,
     layers |-> [ln \in {"foreground", BadLayerName, makeSafeLayerName(BadLayerName)} |->
                    StaticGlyph(IF ln = "foreground" THEN 1
                                ELSE IF ln = BadLayerName THEN 2 ELSE 3, <<>>)],
     customData |-> {}]

BadLayerInputs ==
    {<<GlyphBadLayer, <<97>> >>, <<GlyphTwoBadLayers, <<97>> >>,
     <<GlyphBadAndGenerated, <<97>> >>, <<GlyphBold, <<97>> >>}

\* The backend is given glyphs with such layer names.
NextLayerNames ==
    \/ \E n \in {"a", "b"}, inp \in BadLayerInputs : PutGlyph(n, inp[1], inp[2])
    \/ \E n \in {"a", "b"} : GetGlyph(n)
    \/ TimerFires

SpecLayerNames == Init /\ [][NextLayerNames]_vars

\* The component lists of the glyphs of a project: none, the glyph itself,
\* other glyphs, the same glyph twice, and a name no glyph has.
ComponentLists ==
    {<<>>, <<"a">>, <<"b">>, <<"d">>, <<"b", "d">>, <<"d", "d">>, <<"z">>}

\* A project with the character glyphs "a" and "b" and the deep component
\* "d", each a foreground layer with the components comps gives it.
ComponentProject(comps) ==
    LET fg(n) == [name |-> n, unicodes |-> <<>>, xAdvance |-> 1, components |-> comps[n],
                  lib |-> PlainLib({})]
        file(g) == [data |-> asGLIFData(g), mtime |-> 0]
    IN  [files |->
            (PathOf("characterGlyph", MainDir, "a.glif") :> file(fg("a"))) @@
            (PathOf("characterGlyph", MainDir, "b.glif") :> file(fg("b"))) @@
            (PathOf("deepComponent", MainDir, "d.glif") :> file(fg("d"))),
         dirs |-> {<<"", MainDir>>, <<"characterGlyph", MainDir>>,
                   <<"deepComponent", MainDir>>}]

ComponentProjects == {ComponentProject(comps) : comps \in [GlyphNames -> ComponentLists]}

InitComponents == \E p \in ComponentProjects : InitOnDisk(p.files, p.dirs)

\* Glyphs are read from a project with component references of any shape.
NextComponents ==
    \/ \E n \in GlyphNames : GetGlyph(n)
    \/ TimerFires

SpecComponents == InitComponents /\ [][NextComponents]_vars

\* A backend is made on a directory and glyphs are read from it.
NextOpen ==
    \/ FromPath
    \/ CreateFromPath
    \/ \E n \in GlyphNames : Opened /\ GetGlyph(n)
    \/ Opened /\ TimerFires

SpecOpen == InitClosed /\ [][NextOpen]_vars

----------------------------------------------------------------------------
(* Properties of the calls *)

\* The step is a call of the backend method op.
CallStep(op) == opCount' = opCount + 1 /\ result'.op = op

\* The glyph-set state after the step.
StoreNext ==
    [files |-> files', dirs |-> dirs', contents |-> contents',
     glifFileNames |-> glifFileNames', layers |-> layers',
     ledger |-> recentlyWrittenPaths', events |-> pendingEvents',
     watching |-> fileWatcherCallbacks' > 0]

\* What a backend opened now on the directory holds.
Reopened ==
    [files |-> files, dirs |-> dirs, contents |-> OpenContents(files, dirs),
     glifFileNames |-> OpenGlifFileNames(files, dirs), layers |-> OpenLayers(files, dirs),
     ledger |-> EmptyMap, events |-> <<>>, watching |-> FALSE]

\* The last call was a putGlyph that completed.
PutDone == result.op = "putGlyph" /\ result.error = ""

\* getGlyph of the name last written gives the glyph last written, on this
\* backend and on one reopened on the directory.
RoundTrips ==
    /\ getGlyph(cache, timerPending, Store, result.name).ret = result.glyph
    /\ getGlyph(EmptyMap, FALSE, Reopened, result.name).ret = result.glyph

\* A glyph in the form getGlyph gives: its first source is the default
\* source, named "<default>", on the layer "foreground".
Canonical(glyph) == glyph.sources[1] = DefaultSource

C2_RepeatedPutStep ==
    (CallStep("putGlyph") /\ repeated') =>
        /\ files' = files
        /\ recentlyWrittenPaths' = recentlyWrittenPaths

\* C2: a putGlyph that repeats the call before it (same name, glyph and
\* code points) writes and deletes no file, so bytes and modification times
\* stay, and leaves the written-path ledger as it was.
C2_SecondPutWritesNothing == [][C2_RepeatedPutStep]_vars

C2_Witness ==
    /\ repeated
    /\ result.op = "putGlyph"
    /\ result.glyph = Some(Named(GlyphLight, "b"))
    /\ PathOf("characterGlyph", "light", "b.glif") \in DOMAIN recentlyWrittenPaths

\* The name is held by no glyph set.
HeldByNoSet(glyphName) == HoldingSets(Store, glyphName) = <<>>

C6_GetUnknownStep ==
    \A n \in GlyphNames :
        (CallStep("getGlyph") /\ result'.name = n /\ HeldByNoSet(n)) =>
            /\ result'.ret = None
            /\ result'.error = ""
            /\ UNCHANGED <<glyphMap, contents, glifFileNames, layers, cache,
                           recentlyWrittenPaths, files>>

\* C6: getGlyph of a name held by no glyph set returns None, raises
\* nothing, and leaves the glyph map, the indices, the cache contents, the
\* ledger and the files as they were.
C6_GetUnknownReturnsNone == [][C6_GetUnknownStep]_vars

\* C7: after deleteGlyph(n) has succeeded, getGlyph(n) returns None until
\* putGlyph writes n again.
C7_DeletedReadsNone ==
    \A n \in deletedGlyphs : getGlyph(cache, timerPending, Store, n).ret = None

C8_DeleteUnknownStep ==
    \A n \in GlyphNames :
        (CallStep("deleteGlyph") /\ result'.name = n /\ n \notin DOMAIN glyphMap) =>
            /\ result'.error = "KeyError"
            /\ \E i \in 1..Len(result'.message) : result'.message[i] = n
            /\ UNCHANGED <<glyphMap, contents, glifFileNames, layers, cache,
                           recentlyWrittenPaths, files>>

\* C8: deleteGlyph of a name that is not in the glyph map raises KeyError
\* with a message that holds the name, and leaves the glyph map, the
\* indices, the cache, the ledger and the files as they were.
C8_DeleteUnknownRaises == [][C8_DeleteUnknownStep]_vars

C8_Witness ==
    /\ result.op = "deleteGlyph"
    /\ result.name = "b"
    /\ result.error = "KeyError"
    /\ cache # EmptyMap

\* The paths a glyph set may keep files of the file name under.
PathsOfFile(gs, fileName) == {PathOf(gs, d, fileName) : d \in {MainDir} \cup LayerNames}

C9_DeleteStep ==
    \A n \in GlyphNames :
        (CallStep("deleteGlyph") /\ result'.name = n /\ result'.error = "") =>
            LET held == {gs \in GlyphSets : n \in DOMAIN contents[gs]}
                own == UNION {PathsOfFile(gs, Basename(contents[gs][n])) : gs \in held}
                removed == DOMAIN files \ DOMAIN files'
            IN  /\ held # {}
                /\ glyphMap' = MapDel(glyphMap, n)
                /\ \A gs \in GlyphSets : contents'[gs] = MapDel(contents[gs], n)
                /\ own \cap DOMAIN files' = {}
                /\ removed = own \cap DOMAIN files
                /\ \A path \in removed :
                       /\ path \in DOMAIN recentlyWrittenPaths'
                       /\ recentlyWrittenPaths'[path] = FILE_DELETED_TOKEN
                /\ \A path \in DOMAIN files \ own : files'[path] = files[path]
                /\ DOMAIN files' \subseteq DOMAIN files
                /\ \A gs \in GlyphSets :
                       /\ DOMAIN layers'[gs].contents = DOMAIN layers[gs].contents
                       /\ \A ln \in DOMAIN layers[gs].contents :
                              layers'[gs].contents[ln] \ {userNameToFileName(n)}
                                  = layers[gs].contents[ln] \ {userNameToFileName(n)}

\* C9: after deleteGlyph(n) succeeds, n is in no glyph map and no glyph
\* set, the main file and every layer file of its file name are gone, every
\* removed path is in the ledger with the deletion marker, and the files
\* and index entries of other glyphs are as before.
C9_DeleteRemovesGlyph == [][C9_DeleteStep]_vars

C9_Witness ==
    /\ result.op = "deleteGlyph"
    /\ result.name = "a"
    /\ result.error = ""
    /\ PathOf("characterGlyph", "bold", "a.glif") \in DOMAIN recentlyWrittenPaths
    /\ PathOf("characterGlyph", "bold", "a.glif") \notin DOMAIN files
    /\ PathOf("deepComponent", MainDir, "d.glif") \in DOMAIN files

\* The layers of the written glyph whose file did not exist before the step.
NewLayers(gs, n) ==
    {ln \in DOMAIN cache'[n] \ {"foreground"} :
        ~Exists(Store, PathOf(gs, ln, userNameToFileName(n)))}

C10_NewLayerStep ==
    /\ \A n \in GlyphNames :
        (CallStep("putGlyph") /\ result'.name = n /\ result'.error = "") =>
            LET gs == getGlyphSetForGlyph(Store, n)
            IN  \A ln \in NewLayers(gs, n) :
                    LET path == PathOf(gs, ln, userNameToFileName(n))
                    IN  /\ <<gs, ln>> \in dirs'
                        /\ path \in DOMAIN files'
                        /\ files'[path].data = asGLIFData(cache'[n][ln])
                        /\ path \in DOMAIN recentlyWrittenPaths'
                        /\ recentlyWrittenPaths'[path] = files'[path].mtime
                        /\ ln \in GlyphLayerNames(StoreNext, gs, n)
                        /\ ln \in DOMAIN getGlyph(EmptyMap, FALSE, StoreNext, n).ret[1].layers
    /\ \A n \in GlyphNames, gs \in GlyphSets :
        (/\ n \in DOMAIN contents[gs]
         /\ ~(CallStep("putGlyph") /\ result'.name = n)
         /\ ~(CallStep("deleteGlyph") /\ result'.name = n)) =>
            /\ n \in DOMAIN contents'[gs]
            /\ GlyphLayerNames(Store, gs, n) \subseteq GlyphLayerNames(StoreNext, gs, n)

\* C10: a putGlyph with a layer the glyph had no file of creates the
\* layer's directory and the glyph's file in it, with the layer's data,
\* records the file with its modification time in the ledger, and the layer
\* is listed when the glyph's layers are read, then and until the glyph is
\* written again or deleted.
C10_NewLayerIsStored == [][C10_NewLayerStep]_vars

C10_Witness ==
    /\ PutDone
    /\ result.glyph = Some(Named(GlyphLight, "a"))
    /\ <<"characterGlyph", "light">> \in dirs
    /\ "light" \in GlyphLayerNames(Store, "characterGlyph", "a")

\* The layers stored for the glyph before the step that the written glyph
\* does not have.
DroppedLayers(gs, n) ==
    IF n \in DOMAIN contents[gs]
    THEN GlyphLayerNames(Store, gs, n) \ ({"foreground"} \cup DOMAIN result'.glyph[1].layers)
    ELSE {}

\* The files of a layer directory other than the given one.
OtherFilesIn(gs, ln, path) ==
    {p \in DOMAIN files : p[1] = gs /\ p[2] = ln /\ p # path}

C11_DroppedLayerStep ==
    /\ \A n \in GlyphNames :
        (CallStep("putGlyph") /\ result'.name = n /\ result'.error = "") =>
            LET gs == getGlyphSetForGlyph(Store, n)
            IN  \A ln \in DroppedLayers(gs, n) :
                    LET path == PathOf(gs, ln, Basename(contents[gs][n]))
                    IN  /\ path \notin DOMAIN files'
                        /\ path \in DOMAIN recentlyWrittenPaths'
                        /\ recentlyWrittenPaths'[path] = FILE_DELETED_TOKEN
                        /\ ln \notin GlyphLayerNames(StoreNext, gs, n)
                        /\ ln \notin DOMAIN getGlyph(EmptyMap, FALSE, StoreNext, n).ret[1].layers
                        /\ <<gs, ln>> \in dirs'
                        /\ \A p \in OtherFilesIn(gs, ln, path) :
                               p \in DOMAIN files' /\ files'[p] = files[p]
    /\ \A n \in GlyphNames, gs \in GlyphSets :
        (/\ n \in DOMAIN contents[gs]
         /\ n \in DOMAIN contents'[gs]
         /\ ~(CallStep("putGlyph") /\ result'.name = n)) =>
            GlyphLayerNames(StoreNext, gs, n) \subseteq GlyphLayerNames(Store, gs, n)

\* C11: a putGlyph without a layer that was stored for the glyph deletes
\* the glyph's file of that layer and records its path in the ledger as a
\* deletion; the layer is no longer listed when the glyph's layers are
\* read, then and until the glyph is written again; the layer directory
\* and the files other glyphs have in it stay as they were.
C11_DroppedLayerIsDeleted == [][C11_DroppedLayerStep]_vars

C11_Witness ==
    /\ PutDone
    /\ result.name = "a"
    /\ "bold" \notin DOMAIN result.glyph[1].layers
    /\ PathOf("characterGlyph", "bold", "a.glif") \notin DOMAIN files
    /\ recentlyWrittenPaths[PathOf("characterGlyph", "bold", "a.glif")] = FILE_DELETED_TOKEN
    /\ PathOf("characterGlyph", "bold", "b.glif") \in DOMAIN files
    /\ <<"characterGlyph", "bold">> \in dirs

\* The glyph sets whose contents hold the name.
HoldersOf(cont, n) == {gs \in GlyphSets : n \in DOMAIN cont[gs]}

\* The glyph map and the glyph sets hold the same names, each set-held name
\* in one set.
GlyphMapMatchesSets ==
    /\ \A n \in DOMAIN glyphMap : Cardinality(HoldersOf(contents, n)) = 1
    /\ \A gs \in GlyphSets : DOMAIN contents[gs] \subseteq DOMAIN glyphMap

C12_PlacementStep ==
    \A n \in GlyphNames :
        (CallStep("putGlyph") /\ result'.name = n /\ result'.error = "") =>
            /\ n \in DOMAIN glyphMap'
            /\ HoldersOf(contents', n) =
                   IF n \in DOMAIN glyphMap THEN HoldersOf(contents, n)
                   ELSE {"characterGlyph"}

\* C12: in every state putGlyph and deleteGlyph calls lead to, each name of
\* the glyph map is held by exactly one glyph set and each name a glyph set
\* holds is in the glyph map; putGlyph places a new name in characterGlyph
\* and leaves an existing name in the set that holds it.
C12_OneSetPerName ==
    GlyphMapMatchesSets /\ [][C12_PlacementStep /\ GlyphMapMatchesSets']_vars

C12_Witness ==
    /\ PutDone
    /\ result.name = "d"
    /\ HoldersOf(contents, "d") = {"deepComponent"}
    /\ HoldersOf(contents, "b") = {"characterGlyph"}
    /\ "a" \notin DOMAIN glyphMap

\* The store after the step with every file taken away.
StoreNextNoFiles == [StoreNext EXCEPT !.files = EmptyMap]

\* After a putGlyph of n: the cache entry of n has the layers the glyph set
\* lists for n, each file holding the entry's record; the glyph map has the
\* code points; getGlyph(n) gives the glyph of the entry, with or without
\* the files.
C13_OwnEntry(n) ==
    LET gs == getGlyphSetForGlyph(StoreNext, n)
        mainFileName == Basename(contents'[gs][n])
        fromEntry == Some(buildVariableGlyphFromLayerGlyphs(cache'[n], designspaceAxes))
    IN  /\ n \in DOMAIN cache'
        /\ DOMAIN cache'[n] = GlyphLayerNames(StoreNext, gs, n)
        /\ \A ln \in DOMAIN cache'[n] :
               LET path == PathOf(gs, IF ln = "foreground" THEN MainDir ELSE ln, mainFileName)
               IN  /\ path \in DOMAIN files'
                   /\ files'[path].data = asGLIFData(cache'[n][ln])
        /\ n \in DOMAIN glyphMap'
        /\ glyphMap'[n] = result'.codePoints
        /\ getGlyph(cache', timerPending', StoreNext, n).ret = fromEntry
        /\ getGlyph(cache', timerPending', StoreNextNoFiles, n).ret = fromEntry
        /\ getGlyph(cache', timerPending', StoreNextNoFiles, n).error = ""

C13_OnlyOwnEntryStep ==
    \A n \in GlyphNames :
        (CallStep("putGlyph") /\ result'.name = n /\ result'.error = "") =>
            /\ C13_OwnEntry(n)
            /\ DOMAIN cache' \ {n} = DOMAIN cache \ {n}
            /\ \A m \in DOMAIN cache \ {n} : cache'[m] = cache[m]

\* C13 as stated: after putGlyph(n, G, c) the cache entry of n is the layer
\* records written, the glyph map maps n to c, a getGlyph(n) is answered
\* from the entry without the files, and the cache entry of no other glyph
\* changes.
C13_OnlyOwnEntryChanges == [][C13_OnlyOwnEntryStep]_vars

C13_OthersKeptStep ==
    \A n \in GlyphNames :
        (CallStep("putGlyph") /\ result'.name = n /\ result'.error = "") =>
            /\ C13_OwnEntry(n)
            /\ \A m \in DOMAIN cache \ {n} : m \in DOMAIN cache' /\ cache'[m] = cache[m]
            /\ \A m \in DOMAIN cache' \ (DOMAIN cache \cup {n}) :
                   /\ n \in DOMAIN glyphMap
                   /\ n \notin DOMAIN cache
                   /\ Some(cache'[m]) = getLayerGlyphs(EmptyMap, FALSE, Store, m).value

\* C13, amended: after putGlyph(n, G, c) the cache entry of n is the layer
\* records written, the glyph map maps n to c, a getGlyph(n) is answered
\* from the entry without the files; every cache entry another glyph had
\* is kept as it was, and an entry another glyph gets is what the files
\* hold of it, added when n was an existing glyph that was not cached.
C13_OtherEntriesKept == [][C13_OthersKeptStep]_vars

C13_Witness ==
    /\ PutDone
    /\ result.name = "b"
    /\ "b" \in DOMAIN cache
    /\ "a" \in DOMAIN cache
    /\ glyphMap["b"] = result.codePoints

----------------------------------------------------------------------------
(* External changes: the watcher, other tools, processExternalChanges *)

\* What processExternalChanges observes of a path: the deletion token when
\* the file does not exist, else its modification time.
Observed(st, path) ==
    IF ~Exists(st, path) THEN FILE_DELETED_TOKEN ELSE GetMTime(st, path)

\* The lookup of a file name in the glyph sets' glifFileNames, in the order
\* of _iterGlyphSets: the sets that know the file name.
KnowingSets(st, fileName) ==
    SelectSeq(glyphSetNames, LAMBDA gs : fileName \in DOMAIN st.glifFileNames[gs])

\* One round of the loop of processExternalChanges, with a ledger whose
\* entry is only removed by a notification that matches it
ProcessChangeKeep(acc, st, path) ==
    LET mTime == Observed(st, path)
        matches == path \in DOMAIN acc.ledger /\ acc.ledger[path] = mTime
        fileName == Basename(path)
        known == KnowingSets(st, fileName)
    IN  IF matches
        THEN [acc EXCEPT !.ledger = MapDel(@, path),
                         !.popped = @ \cup {path},
                         !.discarded = @ \cup {path}]
        ELSE IF known # <<>>
        THEN [acc EXCEPT !.glyphNames = @ \cup {st.glifFileNames[Head(known)][fileName]}]
        ELSE acc

\* One round of the loop of processExternalChanges, without the ledger
ProcessChangeNoLedger(acc, st, path) ==
    LET fileName == Basename(path)
        known == KnowingSets(st, fileName)
    IN  IF known # <<>>
        THEN [acc EXCEPT !.glyphNames = @ \cup {st.glifFileNames[Head(known)][fileName]}]
        ELSE acc

\* One round of the loop of processExternalChanges: the ledger entry of the
\* path is popped; the change is skipped when the entry equals what is
\* observed, else the glyph of the file name, if any, is collected.
ProcessChange(acc, st, path) ==
    LET mTime == Observed(st, path)
        had == path \in DOMAIN acc.ledger
        matches == had /\ acc.ledger[path] = mTime
        acc1 == [acc EXCEPT !.ledger = MapDel(@, path),
                            !.popped = IF had THEN @ \cup {path} ELSE @]
        fileName == Basename(path)
        known == KnowingSets(st, fileName)
    IN  IF matches THEN [acc1 EXCEPT !.discarded = @ \cup {path}]
        ELSE IF known # <<>>
        THEN [acc1 EXCEPT !.glyphNames = @ \cup {st.glifFileNames[Head(known)][fileName]}]
        ELSE acc1

\* The loop of processExternalChanges over the set changes.  The loop
\* takes the pairs in the order the set yields them; every notification of
\* a path observes the same file, so what the loop leaves does not depend
\* on that order.
RECURSIVE ProcessChanges(_, _, _)
ProcessChanges(acc, st, changes) ==
    IF changes = {} THEN acc
    ELSE LET change == CHOOSE ch \in changes : TRUE
         IN  Then(ProcessChange(acc, st, change[2]),
                  LAMBDA acc1 : ProcessChanges(acc1, st, changes \ {change}))

\* processExternalChanges, which reports the glyphs and keeps the cache
processExternalChangesKeepCache(cacheDict, st, changes) ==
    Then(ProcessChanges([ledger |-> st.ledger, glyphNames |-> {},
                         discarded |-> {}, popped |-> {}], st, changes),
         LAMBDA acc :
            [cache |-> cacheDict,
             ledger |-> acc.ledger,
             ret |-> IF acc.glyphNames # {} THEN Some(acc.glyphNames) ELSE None,
             discarded |-> acc.discarded,
             popped |-> acc.popped])

\* RCJKBackend.processExternalChanges on the set changes of (change, path)
\* pairs: the cache and the ledger it leaves and the glyph names it returns
\* (None for no reload pattern).
processExternalChanges(cacheDict, st, changes) ==
    Then(ProcessChanges([ledger |-> st.ledger, glyphNames |-> {},
                         discarded |-> {}, popped |-> {}], st, changes),
         LAMBDA acc :
            [cache |-> IF acc.glyphNames # {} THEN EmptyMap ELSE cacheDict,
             ledger |-> acc.ledger,
             ret |-> IF acc.glyphNames # {} THEN Some(acc.glyphNames) ELSE None,
             discarded |-> acc.discarded,
             popped |-> acc.popped])

\* RCJKBackend.watchExternalChanges: the first registration starts the
\* watcher on the project directory.
WatchExternalChanges ==
    /\ fileWatcherCallbacks < MaxCallbacks
    /\ fileWatcherCallbacks' = fileWatcherCallbacks + 1
    /\ StoreUnchanged
    /\ UNCHANGED <<glyphMap, cache, timerPending, result, opCount, extCount,
                   repeated, deletedGlyphs>>
    /\ UNCHANGED otherVars

\* The batch the watcher delivers next when it hands over the k oldest
\* pending events: the set of their (change, path) pairs.
Batch(k) == {pendingEvents[i] : i \in 1..k}

\* RCJKBackend._fileWatcherCallback: processExternalChanges, and with a
\* reload pattern every registered callback is called.
FileWatcherCallback(k) ==
    /\ fileWatcherCallbacks > 0
    /\ k <= Len(pendingEvents)
    /\ \E r \in {processExternalChanges(cache, Store, Batch(k))} :
           /\ cache' = r.cache
           /\ recentlyWrittenPaths' = r.ledger
           /\ result' = [NoCall EXCEPT
                            !.op = "processExternalChanges",
                            !.ret = r.ret,
                            !.discarded = r.discarded,
                            !.popped = r.popped,
                            !.hadCache = (cache # EmptyMap),
                            !.invoked = IF r.ret # None THEN fileWatcherCallbacks ELSE 0]
    /\ pendingEvents' = SubSeq(pendingEvents, k + 1, Len(pendingEvents))
    /\ repeated' = FALSE
    /\ UNCHANGED <<files, dirs, clock, contents, glifFileNames, layers, glyphMap,
                   timerPending, fileWatcherCallbacks, opCount, extCount, deletedGlyphs>>
    /\ UNCHANGED otherVars

\* The files another tool may write or remove: the layer files of glyph
\* "a" and a sidecar.
ExternalPaths ==
    {PathOf("characterGlyph", MainDir, "a.glif"), PathOf("characterGlyph", "bold", "a.glif"),
     PathOf("", MainDir, "fontLib.json")}

\* What the other tool writes: a glyph file of the name the file name
\* stands for, or JSON.
ExternalData(path) ==
    IF path[1] = ""
    THEN <<"json">>
    ELSE asGLIFData([name |-> CHOOSE n \in GlyphNames : userNameToFileName(n) = path[3],
                     unicodes |-> <<>>, xAdvance |-> 9, components |-> <<>>,
                     lib |-> PlainLib({})])

\* Another tool writes a file in an existing directory.
ExternalWrite(path) ==
    /\ extCount < MaxExternal
    /\ <<path[1], path[2]>> \in dirs
    /\ LET st == WriteBytes(Store, path, ExternalData(path), clock)
       IN  /\ files' = st.files
           /\ pendingEvents' = st.events
    /\ clock' = clock + 1
    /\ extCount' = extCount + 1
    /\ UNCHANGED <<dirs, contents, glifFileNames, layers, glyphMap, cache, timerPending,
                   recentlyWrittenPaths, fileWatcherCallbacks, result, opCount,
                   repeated, deletedGlyphs>>
    /\ UNCHANGED otherVars

\* Another tool removes a file.
ExternalDelete(path) ==
    /\ extCount < MaxExternal
    /\ path \in DOMAIN files
    /\ LET st == Unlink(Store, path)
       IN  /\ files' = st.files
           /\ pendingEvents' = st.events
    /\ extCount' = extCount + 1
    /\ UNCHANGED <<dirs, clock, contents, glifFileNames, layers, glyphMap, cache,
                   timerPending, recentlyWrittenPaths, fileWatcherCallbacks, result,
                   opCount, repeated, deletedGlyphs>>
    /\ UNCHANGED otherVars

\* The calls made while other tools work on the directory.
WatchPutInputs == {<<GlyphLight, <<97>> >>}

NextWatch ==
    \/ \E n \in {"a"}, inp \in WatchPutInputs : PutGlyph(n, inp[1], inp[2])
    \/ \E n \in {"a"} : GetGlyph(n)
    \/ \E n \in {"a"} : DeleteGlyph(n)
    \/ WatchExternalChanges
    \/ \E k \in 1..MaxBatch : FileWatcherCallback(k)
    \/ \E path \in ExternalPaths : ExternalWrite(path)
    \/ \E path \in ExternalPaths : ExternalDelete(path)

SpecWatch == Init /\ [][NextWatch]_vars

----------------------------------------------------------------------------
(* Properties of processExternalChanges *)

\* The step is the delivery of a batch to _fileWatcherCallback.
IsDelivery == Len(pendingEvents') < Len(pendingEvents)

\* The (change, path) pairs of the batch the step delivers.
Delivered == {pendingEvents[i] : i \in 1..(Len(pendingEvents) - Len(pendingEvents'))}

DeliveredPaths == {change[2] : change \in Delivered}

\* The ledger holds the path with what is observed of the file now: its
\* modification time, or the deletion marker when it does not exist.
Recorded(path) ==
    /\ path \in DOMAIN recentlyWrittenPaths
    /\ recentlyWrittenPaths[path] = Observed(Store, path)

\* The batch holds one notification for the path, and it finds the path
\* recorded.  (Of several notifications for one path the first uses up
\* the record.)
SelfCaused(path) ==
    /\ Recorded(path)
    /\ Cardinality({change \in Delivered : change[2] = path}) = 1

\* The glyphs of the delivered paths that are not self-caused and whose
\* file name a glyph set's filename index knows.
ExternalGlyphs ==
    {glifFileNames[gs][Basename(path)] :
        <<gs, path>> \in
            {x \in GlyphSets \X {q \in DeliveredPaths : ~SelfCaused(q)} :
                /\ Basename(x[2]) \in DOMAIN glifFileNames[x[1]]
                /\ x[1] = Head(KnowingSets(Store, Basename(x[2])))}}

C3_DiscardStep ==
    IsDelivery =>
        /\ \A path \in DeliveredPaths : Recorded(path) => path \in result'.discarded
        /\ (\A path \in DeliveredPaths : SelfCaused(path)) =>
               /\ cache' = cache
               /\ result'.ret = None
               /\ result'.invoked = 0
        /\ result'.ret # None =>
               /\ result'.ret[1] \subseteq ExternalGlyphs
               /\ result'.discarded \cap {path \in DeliveredPaths : ~Recorded(path)} = {}

\* C3: a notification for a path the ledger records with the modification
\* time (or the absence) the file still has is discarded: a batch of such
\* notifications leaves the cache, returns None and calls no callback, and
\* in any batch the glyphs reported are glyphs of other notifications.
C3_SelfCausedIsDiscarded == [][C3_DiscardStep]_vars

C3_Witness ==
    /\ result.op = "processExternalChanges"
    /\ result.discarded # {}
    /\ result.ret = None
    /\ result.invoked = 0
    /\ result.hadCache
    /\ cache # EmptyMap

C4_ReloadStep ==
    IsDelivery =>
        IF ExternalGlyphs # {}
        THEN /\ cache' = EmptyMap
             /\ result'.ret = Some(ExternalGlyphs)
        ELSE /\ cache' = cache
             /\ result'.ret = None

\* C4: processExternalChanges clears the whole cache and returns the
\* affected glyph names exactly when some changed path that is not
\* self-caused has a file name a filename index knows; otherwise it returns
\* None and the cache stays as it is.
C4_ClearsIffExternalGlyph == [][C4_ReloadStep]_vars

C4_Witness ==
    /\ result.op = "processExternalChanges"
    /\ result.ret = Some({"a"})
    /\ result.hadCache
    /\ cache = EmptyMap
    /\ result.discarded # {}

C5_RemovedOnMatchStep ==
    \A path \in DOMAIN recentlyWrittenPaths :
        path \notin DOMAIN recentlyWrittenPaths'
            <=> (IsDelivery /\ path \in DeliveredPaths /\ Recorded(path))

\* C5 (as stated): the ledger entry of a path is removed when, and only
\* when, a notification for the path arrives that observes the recorded
\* value; a notification that observes another value leaves the entry.
C5_RemovedOnlyOnMatch == [][C5_RemovedOnMatchStep]_vars

C5_RemovedOnNotificationStep ==
    /\ \A path \in DOMAIN recentlyWrittenPaths :
           path \notin DOMAIN recentlyWrittenPaths'
               <=> (IsDelivery /\ path \in DeliveredPaths)
    /\ IsDelivery =>
           /\ result'.popped = DeliveredPaths \cap DOMAIN recentlyWrittenPaths
           /\ result'.discarded = {path \in DeliveredPaths : Recorded(path)}

\* C5 (amended): the ledger entry of a path is removed when, and only
\* when, a notification for the path is processed, whether the value it
\* observes equals the recorded one or not; the notification is discarded
\* exactly when the values are equal.
C5_RemovedOnNotification == [][C5_RemovedOnNotificationStep]_vars

C5_Witness ==
    /\ result.op = "processExternalChanges"
    /\ result.popped \ result.discarded # {}
    /\ result.ret # None
    /\ \A path \in result.popped : path \notin DOMAIN recentlyWrittenPaths

----------------------------------------------------------------------------
(* The loop of _fileWatcherCallback over the registered callbacks, one
   callback at a time: every "await callback(reloadPattern)" is a point
   where the other tasks of the event loop run. *)

\* The callbacks a client registers at most.
MaxRegistrations == 2

\* RCJKBackend.watchExternalChanges, registering one more callback.
AppendCallback ==
    /\ fileWatcherCallbacks < MaxRegistrations
    /\ fileWatcherCallbacks' = fileWatcherCallbacks + 1
    /\ StoreUnchanged
    /\ UNCHANGED <<glyphMap, cache, timerPending, result, opCount, extCount,
                   repeated, deletedGlyphs, otherVars>>

\* RCJKBackend._fileWatcherCallback up to its first suspension:
\* processExternalChanges on the k oldest events and, with a reload
\* pattern, the call of the first callback.  The watcher awaits
\* _fileWatcherCallback before it delivers the next batch, and delivers
\* nothing once it is closed.
ProcessBatch(k) ==
    /\ fileWatcherCallbacks > 0
    /\ ~watcherClosed
    /\ delivery.next = 0
    /\ k <= Len(pendingEvents)
    /\ \E r \in {processExternalChanges(cache, Store, Batch(k))} :
           /\ cache' = r.cache
           /\ recentlyWrittenPaths' = r.ledger
           /\ result' = [NoCall EXCEPT
                            !.op = "processExternalChanges",
                            !.ret = r.ret,
                            !.discarded = r.discarded,
                            !.popped = r.popped,
                            !.hadCache = (cache # EmptyMap)]
           /\ delivery' = IF r.ret # None
                          THEN [pattern |-> r.ret, next |-> 2,
                                calls |-> <<[callback |-> 1, pattern |-> r.ret,
                                             closed |-> watcherClosed]>>]
                          ELSE NoDelivery
    /\ pendingEvents' = SubSeq(pendingEvents, k + 1, Len(pendingEvents))
    /\ repeated' = FALSE
    /\ UNCHANGED <<files, dirs, clock, contents, glifFileNames, layers, glyphMap,
                   timerPending, fileWatcherCallbacks, opCount, extCount, deletedGlyphs,
                   watcherClosed, sidecarVars, managerVars>>

\* A turn of the loop that calls the first callback of the list again
CallFirstCallback ==
    /\ delivery.next \in 1..fileWatcherCallbacks
    /\ delivery' = [delivery EXCEPT
                      !.next = @ + 1,
                      !.calls = Append(@, [callback |-> 1,
                                           pattern |-> delivery.pattern,
                                           closed |-> watcherClosed])]
    /\ StoreUnchanged
    /\ UNCHANGED <<glyphMap, cache, timerPending, fileWatcherCallbacks, result, opCount,
                   extCount, repeated, deletedGlyphs, watcherClosed, sidecarVars, managerVars>>

\* The callback awaited returns and the loop goes on: the next callback of
\* the list is called with the reload pattern and awaited.
CallNextCallback ==
    /\ delivery.next \in 1..fileWatcherCallbacks
    /\ delivery' = [delivery EXCEPT
                      !.next = @ + 1,
                      !.calls = Append(@, [callback |-> delivery.next,
                                           pattern |-> delivery.pattern,
                                           closed |-> watcherClosed])]
    /\ StoreUnchanged
    /\ UNCHANGED <<glyphMap, cache, timerPending, fileWatcherCallbacks, result, opCount,
                   extCount, repeated, deletedGlyphs, watcherClosed, sidecarVars, managerVars>>

\* The last callback has returned and the list has no further entry.
LoopEnds ==
    /\ delivery.next > fileWatcherCallbacks
    /\ delivery' = [delivery EXCEPT !.next = 0]
    /\ StoreUnchanged
    /\ UNCHANGED <<glyphMap, cache, timerPending, fileWatcherCallbacks, result, opCount,
                   extCount, repeated, deletedGlyphs, watcherClosed, sidecarVars, managerVars>>

NextNotify ==
    \/ \E inp \in WatchPutInputs : PutGlyph("a", inp[1], inp[2])
    \/ AppendCallback
    \/ \E k \in 1..MaxBatch : ProcessBatch(k)
    \/ CallNextCallback
    \/ LoopEnds
    \/ \E p \in ExternalPaths : ExternalWrite(p)
    \/ \E p \in ExternalPaths : ExternalDelete(p)

\* The event loop runs a task that can run: a callback that is due is
\* called, and the loop ends when the list is through.
SpecNotify ==
    Init /\ [][NextNotify]_vars /\ WF_vars(CallNextCallback) /\ WF_vars(LoopEnds)

----------------------------------------------------------------------------
(* Shutdown *)

\* RCJKBackend.aclose: the cache's timer is cancelled and the watcher, if
\* one was started, is closed.  A closed watcher delivers no further batch.
\* What FileWatcher.aclose does to a _fileWatcherCallback that is waiting
\* for a callback is the watcher library's matter: the task is either
\* cancelled there (dropped) or left to go on.
Aclose(dropped) ==
    /\ ~watcherClosed
    /\ timerPending' = FALSE
    /\ watcherClosed' = TRUE
    /\ delivery' = IF dropped THEN [delivery EXCEPT !.next = 0] ELSE delivery
    /\ StoreUnchanged
    /\ UNCHANGED <<glyphMap, cache, fileWatcherCallbacks, result, opCount, extCount,
                   repeated, deletedGlyphs, sidecarVars, managerVars>>

\* The client calls the backend until it closes it; the loop over the
\* callbacks and the other tools go on as they are.
NextClose ==
    \/ ~watcherClosed /\ \E inp \in WatchPutInputs : PutGlyph("a", inp[1], inp[2])
    \/ ~watcherClosed /\ GetGlyph("a")
    \/ ~watcherClosed /\ AppendCallback
    \/ TimerFires
    \/ \E k \in 1..MaxBatch : ProcessBatch(k)
    \/ CallNextCallback
    \/ LoopEnds
    \/ \E dropped \in BOOLEAN : Aclose(dropped)
    \/ \E p \in ExternalPaths : ExternalWrite(p)
    \/ \E p \in ExternalPaths : ExternalDelete(p)

SpecClose == Init /\ [][NextClose]_vars

----------------------------------------------------------------------------
(* Properties of the notifications *)

\* The callbacks called so far for the batch in hand, in the order of the calls.
Called == [i \in 1..Len(delivery.calls) |-> delivery.calls[i].callback]

\* Every registered callback has been called, once each.
AllCalledOnce == Called = [i \in 1..fileWatcherCallbacks |-> i]

\* No callback has been called twice for the batch, every call passed the
\* reload pattern of the batch, and with no reload pattern there is no call.
C15_CallsOfBatch ==
    /\ \A i, j \in 1..Len(delivery.calls) : Called[i] = Called[j] => i = j
    /\ \A i \in 1..Len(delivery.calls) :
          /\ delivery.calls[i].pattern = delivery.pattern
          /\ Called[i] \in 1..fileWatcherCallbacks
    /\ delivery.pattern = None => delivery.next = 0 /\ delivery.calls = <<>>

\* A batch: its reload pattern is what processExternalChanges returned; the
\* end of the loop: every registered callback has been called once.
C15_BatchStep ==
    /\ IsDelivery =>
          /\ result'.op = "processExternalChanges"
          /\ delivery'.pattern = result'.ret
          /\ Len(delivery'.calls) = IF result'.ret = None THEN 0 ELSE 1
    /\ delivery.next > 0 /\ delivery'.next = 0 => AllCalledOnce /\ AllCalledOnce'

----------------------------------------------------------------------------
(* The font-wide data: designspace, features, custom data *)

\* The values the designspace mutators are called with.
FontInfoInputs == {[familyName |-> None], [familyName |-> Some("Family")]}

SourcesInputs ==
    {EmptyMap, [bold |-> [name |-> "Bold", location |-> [wght |-> 1]]]}

AxesInputs == {[axes |-> <<>>], [axes |-> <<[name |-> "wght", defaultValue |-> 0]>>]}

UnitsPerEmInputs == {1000, 2000}

\* getFontInfo, getSources, getAxes, getUnitsPerEm: the field of the
\* designspace (a copy of it)
getFontInfo(ds) == ds.fontInfo

getSources(ds) == ds.sources

getAxes(ds) == ds.axes

getUnitsPerEm(ds) == ds.unitsPerEm

\* putAxes with the cached _defaultLocation left in place
putAxesKeepsDefaultLocation(cached) == cached

\* putAxes: if hasattr(self, "_defaultLocation"): del self._defaultLocation
putAxesDefaultLocation(cached) == None

\* A mutator that sets the field and leaves the file as it is
PutFieldNoWrite(op, field, value) ==
    /\ opCount < MaxOps
    /\ opCount' = opCount + 1
    /\ designspace' = [designspace EXCEPT ![field] = value]
    /\ StoreUnchanged
    /\ result' = [NoCall EXCEPT !.op = op, !.arg = Some(value)]
    /\ repeated' = FALSE
    /\ cachedDefaultLocation' = IF op = "putAxes" THEN putAxesDefaultLocation(cachedDefaultLocation)
                                ELSE cachedDefaultLocation
    /\ UNCHANGED <<glyphMap, cache, timerPending, fileWatcherCallbacks, extCount,
                   deletedGlyphs, notifyVars, managerVars, writing,
                   standardCustomDataItems>>

\* The body the four mutators share: the field is set to (a copy of) the
\* value and the designspace file is written.
PutField(op, field, value) ==
    /\ opCount < MaxOps
    /\ opCount' = opCount + 1
    /\ designspace' = [designspace EXCEPT ![field] = value]
    /\ SetStore(writeDesignspace(Store, designspace', clock))
    /\ result' = [NoCall EXCEPT !.op = op, !.arg = Some(value)]
    /\ repeated' = FALSE
    /\ cachedDefaultLocation' = IF op = "putAxes" THEN putAxesDefaultLocation(cachedDefaultLocation)
                                ELSE cachedDefaultLocation
    /\ UNCHANGED <<glyphMap, cache, timerPending, fileWatcherCallbacks, extCount,
                   deletedGlyphs, notifyVars, managerVars, writing,
                   standardCustomDataItems>>

\* RCJKBackend.putFontInfo
PutFontInfo(fontInfo) == PutField("putFontInfo", "fontInfo", fontInfo)

\* RCJKBackend.putSources
PutSources(sources) == PutField("putSources", "sources", sources)

\* RCJKBackend.putAxes.  It also drops the cached _defaultLocation.
PutAxes(axes) == PutField("putAxes", "axes", axes)

\* RCJKBackend.putUnitsPerEm
PutUnitsPerEm(value) == PutField("putUnitsPerEm", "unitsPerEm", value)

\* os.linesep where the backend runs
linesep == <<"LF">>

\* A text is a sequence of characters: "CR" and "LF" stand for carriage
\* return and line feed, any other string for itself.
\* pathlib.Path.write_text: every line feed is written as os.linesep.
RECURSIVE writeText(_)
writeText(text) ==
    IF text = <<>> THEN <<>>
    ELSE (IF Head(text) = "LF" THEN linesep ELSE <<Head(text)>>) \o writeText(Tail(text))

\* pathlib.Path.read_text: a carriage return with or without a line feed
\* after it is read as one line feed (universal newlines).
RECURSIVE readText(_)
readText(data) ==
    IF data = <<>> THEN <<>>
    ELSE IF Head(data) = "CR"
    THEN <<"LF">> \o readText(IF Len(data) >= 2 /\ data[2] = "LF"
                              THEN Tail(Tail(data)) ELSE Tail(data))
    ELSE <<Head(data)>> \o readText(Tail(data))

\* The features putFeatures is called with.
OpenTypeFeatures(language, text) == [language |-> language, text |-> text]

FeatureTexts == {<<>>, <<"x">>, <<"x", "LF", "y">>, <<"x", "CR", "LF", "y">>}

FeatureLanguages == {"fea", "glyphs"}

\* RCJKBackend.getFeatures
getFeatures(st) ==
    OpenTypeFeatures("fea",
        IF Exists(st, RootPath(FEA_FILENAME))
        THEN readText(st.files[RootPath(FEA_FILENAME)].data) ELSE <<>>)

\* putFeatures without the test of the language
putFeaturesAnyLanguage(st, features, now) ==
    IF features.text # <<>>
    THEN WriteBytes(st, RootPath(FEA_FILENAME), writeText(features.text), now)
    ELSE IF Exists(st, RootPath(FEA_FILENAME))
    THEN Unlink(st, RootPath(FEA_FILENAME))
    ELSE st

\* RCJKBackend.putFeatures: the files it leaves
putFeatures(st, features, now) ==
    IF features.language # "fea" THEN st
    ELSE IF features.text # <<>>
    THEN WriteBytes(st, RootPath(FEA_FILENAME), writeText(features.text), now)
    ELSE IF Exists(st, RootPath(FEA_FILENAME))
    THEN Unlink(st, RootPath(FEA_FILENAME))
    ELSE st

\* RCJKBackend.putFeatures
PutFeatures(features) ==
    /\ opCount < MaxOps
    /\ opCount' = opCount + 1
    /\ SetStore(putFeatures(Store, features, clock))
    /\ result' = [NoCall EXCEPT !.op = "putFeatures", !.arg = Some(features)]
    /\ repeated' = FALSE
    /\ UNCHANGED <<glyphMap, cache, timerPending, fileWatcherCallbacks, extCount,
                   deletedGlyphs, otherVars>>

\* The dicts putCustomData is called with.
CustomDataInputs ==
    {EmptyMap,
     [k \in {CustomDataKeys[2]} |-> <<"value">>],
     [k \in {CustomDataKeys[1]} |-> <<"Accepted", "Rejected">>]}

\* RCJKBackend.getCustomData
GetCustomData ==
    /\ opCount < MaxOps
    /\ opCount' = opCount + 1
    /\ result' = [NoCall EXCEPT !.op = "getCustomData",
                                !.ret = Some(getCustomData(standardCustomDataItems, Store))]
    /\ StoreUnchanged
    /\ repeated' = FALSE
    /\ UNCHANGED <<glyphMap, cache, timerPending, fileWatcherCallbacks, extCount,
                   deletedGlyphs, otherVars>>

\* The caller changes the dict getCustomData returned in place, as
\* test_statusFieldDefinitions does: it appends to the list of an entry.
\* An object the built-in entries share changes there as well.
CallerAppends(key) ==
    /\ opCount < MaxOps
    /\ result.op \in {"getCustomData", "callerAppends"}
    /\ key \in DOMAIN result.ret[1].value
    /\ opCount' = opCount + 1
    /\ result' = [result EXCEPT !.op = "callerAppends",
                                !.ret[1].value[key] = Append(@, "Rejected")]
    /\ standardCustomDataItems' =
          IF key \in result.ret[1].shared
          THEN [standardCustomDataItems EXCEPT ![key] = Append(@, "Rejected")]
          ELSE standardCustomDataItems
    /\ StoreUnchanged
    /\ UNCHANGED <<glyphMap, cache, timerPending, fileWatcherCallbacks, extCount,
                   repeated, deletedGlyphs, notifyVars, managerVars, designspace, writing,
                   cachedDefaultLocation>>

\* RCJKBackend.putCustomData
PutCustomData(customData) ==
    /\ opCount < MaxOps
    /\ opCount' = opCount + 1
    /\ SetStore(putCustomData(Store, customData, clock))
    /\ result' = [NoCall EXCEPT !.op = "putCustomData", !.arg = Some(customData)]
    /\ repeated' = FALSE
    /\ UNCHANGED <<glyphMap, cache, timerPending, fileWatcherCallbacks, extCount,
                   deletedGlyphs, otherVars>>

\* The kerning putKerning is called with: none, and one horizontal table.
KerningInputs ==
    {EmptyMap, [kern |-> [groupsSide1 |-> {"A"}, groupsSide2 |-> {"V"}, values |-> <<-50>>]]}

\* RCJKBackend.getKerning
getKerning(st) == EmptyMap

\* putKerning that stores the kerning in a file of the project
putKerningStored(st, kerning, now) ==
    WriteBytes(st, RootPath("kerning.json"), jsonDumps(<<<<"kerning", kerning>>>>), now)

\* RCJKBackend.putKerning: a warning is logged; the files it leaves
putKerning(st, kerning, now) == st

\* RCJKBackend.getKerning
GetKerning ==
    /\ opCount < MaxOps
    /\ opCount' = opCount + 1
    /\ result' = [NoCall EXCEPT !.op = "getKerning", !.ret = Some(getKerning(Store))]
    /\ StoreUnchanged
    /\ repeated' = FALSE
    /\ UNCHANGED <<glyphMap, cache, timerPending, fileWatcherCallbacks, extCount,
                   deletedGlyphs, otherVars>>

\* RCJKBackend.putKerning
PutKerning(kerning) ==
    /\ opCount < MaxOps
    /\ opCount' = opCount + 1
    /\ SetStore(putKerning(Store, kerning, clock))
    /\ result' = [NoCall EXCEPT !.op = "putKerning", !.arg = Some(kerning)]
    /\ repeated' = FALSE
    /\ UNCHANGED <<glyphMap, cache, timerPending, fileWatcherCallbacks, extCount,
                   deletedGlyphs, otherVars>>

\* A mutator up to the open() of pathlib.Path.write_text: the field is
\* set, the text is made, and opening the file for writing leaves it empty.
BeginPutField(op, field, value) ==
    /\ opCount < MaxOps
    /\ writing = None
    /\ opCount' = opCount + 1
    /\ designspace' = [designspace EXCEPT ![field] = value]
    /\ writing' = Some([old |-> IF Exists(Store, RootPath(DS_FILENAME))
                                THEN Some(files[RootPath(DS_FILENAME)].data) ELSE None,
                        new |-> jsonDumps(unstructureDesignspaceData(designspace')),
                        interrupted |-> FALSE])
    /\ SetStore(WriteBytes(Store, RootPath(DS_FILENAME), <<>>, clock))
    /\ result' = [NoCall EXCEPT !.op = op, !.arg = Some(value)]
    /\ repeated' = FALSE
    /\ cachedDefaultLocation' = IF op = "putAxes" THEN putAxesDefaultLocation(cachedDefaultLocation)
                                ELSE cachedDefaultLocation
    /\ UNCHANGED <<glyphMap, cache, timerPending, fileWatcherCallbacks, extCount,
                   deletedGlyphs, notifyVars, managerVars, standardCustomDataItems>>

\* write_text goes on: the next piece of the text reaches the file; with
\* the last piece the file is closed and the mutator returns.
WriteGoesOn ==
    /\ writing # None
    /\ ~writing[1].interrupted
    /\ \E n \in {Len(files[RootPath(DS_FILENAME)].data) + 1} :
          /\ SetStore(WriteBytes(Store, RootPath(DS_FILENAME),
                                 SubSeq(writing[1].new, 1, n), clock))
          /\ writing' = IF n = Len(writing[1].new) THEN None ELSE writing
    /\ UNCHANGED <<glyphMap, cache, timerPending, fileWatcherCallbacks, result, opCount,
                   extCount, repeated, deletedGlyphs, notifyVars, managerVars, designspace,
                   standardCustomDataItems, cachedDefaultLocation>>

\* The process ends while write_text is under way (it is killed, the
\* machine goes down, the disk is full): the file stays as far as written.
WriteInterrupted ==
    /\ writing # None
    /\ ~writing[1].interrupted
    /\ writing' = Some([writing[1] EXCEPT !.interrupted = TRUE])
    /\ StoreUnchanged
    /\ UNCHANGED <<glyphMap, cache, timerPending, fileWatcherCallbacks, result, opCount,
                   extCount, repeated, deletedGlyphs, notifyVars, managerVars, designspace,
                   standardCustomDataItems, cachedDefaultLocation>>

\* A font axis "wght" with a mapping from user values to source values.
WghtFontAxis(defaultValue) ==
    [name |-> "wght", defaultValue |-> defaultValue, mapping |-> << <<0, 10>>, <<1, 20>> >>]

\* The axes putAxes is called with where glyphs are written: none, and the
\* axis with one default and with another.
FontAxesInputs ==
    {[axes |-> <<>>], [axes |-> <<WghtFontAxis(0)>>], [axes |-> <<WghtFontAxis(1)>>]}

\* A glyph without axes of its own whose sources sit on the font axis: which
\* of them is the default source depends on the font's default location.
GlyphOnFontAxis ==
    [name |-> "", axes |-> <<>>,
     sources |-> <<Source("light", "light", [wght |-> 10]),
                   Source("bold", "bold", [wght |-> 20]),
                   Source("default", "default", EmptyMap)>>,
     layers |-> [ln \in {"light", "bold", "default"} |->
                    StaticGlyph(IF ln = "light" THEN 1 ELSE IF ln = "bold" THEN 2 ELSE 3,
                                <<>>)],
     customData |-> {}]

\* The font axes are changed and glyphs are written.
NextAxes ==
    \/ \E axes \in FontAxesInputs : PutAxes(axes)
    \/ \E n \in {"a", "b"} : PutGlyph(n, GlyphOnFontAxis, <<>>)
    \/ \E n \in {"a", "b"} : PutGlyph(n, GlyphBold, <<97>>)

SpecAxes == Init /\ [][NextAxes]_vars

\* The mutators with the write of the file step by step.
NextInterrupt ==
    \/ \E v \in FontInfoInputs : BeginPutField("putFontInfo", "fontInfo", v)
    \/ \E v \in SourcesInputs : BeginPutField("putSources", "sources", v)
    \/ \E v \in AxesInputs : BeginPutField("putAxes", "axes", v)
    \/ \E v \in UnitsPerEmInputs : BeginPutField("putUnitsPerEm", "unitsPerEm", v)
    \/ WriteGoesOn
    \/ WriteInterrupted

SpecInterrupt == Init /\ [][NextInterrupt]_vars

NextSidecar ==
    \/ \E v \in FontInfoInputs : PutFontInfo(v)
    \/ \E v \in SourcesInputs : PutSources(v)
    \/ \E v \in AxesInputs : PutAxes(v)
    \/ \E v \in UnitsPerEmInputs : PutUnitsPerEm(v)
    \/ \E l \in FeatureLanguages, t \in FeatureTexts : PutFeatures(OpenTypeFeatures(l, t))
    \/ GetCustomData
    \/ \E k \in {CustomDataKeys[i] : i \in 1..Len(CustomDataKeys)} : CallerAppends(k)
    \/ \E d \in CustomDataInputs : PutCustomData(d)
    \/ GetKerning
    \/ \E k \in KerningInputs : PutKerning(k)

SpecSidecar == Init /\ [][NextSidecar]_vars

----------------------------------------------------------------------------
(* Properties of the font-wide data *)

\* The designspace field a mutator sets.
FieldOf(op) ==
    CASE op = "putFontInfo" -> "fontInfo"
      [] op = "putSources" -> "sources"
      [] op = "putAxes" -> "axes"
      [] op = "putUnitsPerEm" -> "unitsPerEm"

DesignspaceOps == {"putFontInfo", "putSources", "putAxes", "putUnitsPerEm"}

\* What the getter of the field returns on a backend with the designspace ds.
GetField(ds, field) ==
    CASE field = "fontInfo" -> getFontInfo(ds)
      [] field = "sources" -> getSources(ds)
      [] field = "axes" -> getAxes(ds)
      [] field = "unitsPerEm" -> getUnitsPerEm(ds)

C16_PutFieldStep ==
    \A op \in DesignspaceOps :
        CallStep(op) =>
            /\ GetField(designspace', FieldOf(op)) = result'.arg[1]
            /\ GetField(OpenDesignspace(files'), FieldOf(op)) = result'.arg[1]
            /\ \A f \in DesignspaceFields \ {FieldOf(op)} :
                  /\ GetField(designspace', f) = GetField(designspace, f)
                  /\ GetField(OpenDesignspace(files'), f) = GetField(designspace, f)
            /\ RootPath(DS_FILENAME) \in DOMAIN files'
            /\ files'[RootPath(DS_FILENAME)].data =
                   jsonDumps(unstructureDesignspaceData(designspace'))
            /\ WellFormed(files'[RootPath(DS_FILENAME)].data)
            /\ \A f \in DesignspaceFields :
                  HasMember(jsonLoads(files'[RootPath(DS_FILENAME)].data), f)

\* C16: after putFontInfo, putSources, putAxes or putUnitsPerEm with the
\* value v the getter of the field returns v, on this backend and on one
\* opened on the directory afterwards, the getters of the other three
\* fields return what they returned before, and designspace.json holds the
\* JSON object of the whole designspace in memory.
C16_DesignspaceFieldRoundTrips == [][C16_PutFieldStep]_vars

C16_Witness ==
    /\ result.op = "putUnitsPerEm"
    /\ result.arg = Some(2000)
    /\ getUnitsPerEm(designspace) = 2000
    /\ getAxes(designspace) # DefaultFont.axes
    /\ OpenDesignspace(files) = designspace

\* C17: designspace.json at every instant holds either the whole document
\* it held before the mutator under way or the whole new one (no file
\* where there was none before), also when the write is interrupted.
C17_FileIsOldOrNew ==
    IF writing = None
    THEN Exists(Store, RootPath(DS_FILENAME)) =>
            files[RootPath(DS_FILENAME)].data =
                jsonDumps(unstructureDesignspaceData(designspace))
    ELSE IF Exists(Store, RootPath(DS_FILENAME))
         THEN \/ files[RootPath(DS_FILENAME)].data = writing[1].new
              \/ Some(files[RootPath(DS_FILENAME)].data) = writing[1].old
         ELSE writing[1].old = None

C18_PutFeaturesStep ==
    /\ (CallStep("putFeatures") /\ result'.arg[1].language = "fea") =>
          /\ getFeatures(StoreNext).text = result'.arg[1].text
          /\ result'.arg[1].text = <<>> => ~Exists(StoreNext, RootPath(FEA_FILENAME))
    /\ ~Exists(Store, RootPath(FEA_FILENAME)) => getFeatures(Store).text = <<>>

\* C18: after putFeatures of a text in the language "fea" getFeatures gives
\* that text, whatever the text; after putFeatures of the empty text there
\* is no features.fea; without features.fea getFeatures gives the empty
\* text.
C18_FeaturesRoundTrip == [][C18_PutFeaturesStep]_vars

C19_OtherLanguageStep ==
    (CallStep("putFeatures") /\ result'.arg[1].language # "fea") =>
        /\ result'.error = ""
        /\ files' = files
        /\ getFeatures(StoreNext) = getFeatures(Store)
        /\ UNCHANGED <<dirs, designspace, recentlyWrittenPaths, pendingEvents>>

\* C19: putFeatures with a language other than "fea" raises nothing and
\* changes nothing: features.fea keeps its content or stays absent,
\* whatever the text, and getFeatures returns what it returned before.
C19_OtherLanguageIsNoOp == [][C19_OtherLanguageStep]_vars

C19_Witness ==
    /\ result.op = "putFeatures"
    /\ result.arg[1].language = "glyphs"
    /\ result.arg[1].text = <<>>
    /\ Exists(Store, RootPath(FEA_FILENAME))
    /\ getFeatures(Store).text = <<"x">>

\* The built-in entries overlaid with a dict, whose entries win.
Overlaid(dict) == MapMerge(StandardItems, dict)

C20_CustomDataStep ==
    /\ CallStep("getCustomData") =>
          /\ result'.ret[1].value = Overlaid(fontLib(Store))
          /\ \A k \in DOMAIN fontLib(Store) : result'.ret[1].value[k] = fontLib(Store)[k]
          /\ files' = files
    /\ CallStep("putCustomData") =>
          /\ Exists(StoreNext, RootPath(FONTLIB_FILENAME))
          /\ fontLib(StoreNext) = result'.arg[1]
          /\ getCustomData(standardCustomDataItems', StoreNext).value =
                Overlaid(result'.arg[1])
    /\ CallStep("callerAppends") =>
          /\ files' = files
          /\ result'.ret[1].value # result.ret[1].value

\* C20: getCustomData returns the built-in entries overlaid with the
\* entries of fontLib.json, an entry of the file winning, and leaves the
\* file as it is; the built-in entries stay what they are, also when the
\* caller changes the value returned; after putCustomData(d) fontLib.json
\* holds d and getCustomData returns the built-in entries overlaid with d.
C20_CustomDataOverlay ==
    /\ [](standardCustomDataItems = StandardItems)
    /\ [][C20_CustomDataStep]_vars

C20_Witness ==
    /\ result.op = "callerAppends"
    /\ result.ret[1].value[CustomDataKeys[1]] = <<"Accepted", "Rejected", "Rejected">>
    /\ fontLib(Store) = [k \in {CustomDataKeys[1]} |-> <<"Accepted", "Rejected">>]
    /\ standardCustomDataItems = StandardItems

C21_KerningStep ==
    /\ CallStep("getKerning") =>
          /\ result'.ret = Some(EmptyMap)
          /\ result'.error = ""
    /\ CallStep("putKerning") =>
          /\ result'.error = ""
          /\ StoreNext = Store
          /\ getKerning(StoreNext) = EmptyMap
    /\ (CallStep("getKerning") \/ CallStep("putKerning")) =>
          UNCHANGED <<glyphMap, cache, timerPending, fileWatcherCallbacks, clock,
                      designspace, standardCustomDataItems>>

\* C21: getKerning returns the empty mapping in every state; putKerning(k)
\* raises nothing and changes neither the files nor the state of the
\* backend, whatever k, so getKerning is empty after it as well.
C21_KerningUnsupported ==
    /\ [](getKerning(Store) = EmptyMap)
    /\ [][C21_KerningStep]_vars

C21_Witness ==
    /\ result.op = "putKerning"
    /\ result.arg[1] # EmptyMap
    /\ getKerning(Store) = EmptyMap
    /\ Exists(Store, RootPath(FEA_FILENAME))
    /\ RootPath("kerning.json") \notin DOMAIN files

----------------------------------------------------------------------------
(* Properties of opening a backend *)

\* The step is a call of fromPath (create = FALSE) or createFromPath.
ConstructStep(create) ==
    result = NotOpened /\ result'.op = "open" /\ result'.arg = Some(create)

\* No backend came of the step: no field of it is set.
NoBackendNext ==
    /\ ~Opened'
    /\ UNCHANGED <<contents, glifFileNames, layers, glyphMap, designspace, cache>>

C22_NoMainGlyphSetStep ==
    (ConstructStep(FALSE) /\ ~GlyphSetExists(dirs, "characterGlyph")) =>
        /\ result'.error = "TypeError"
        /\ NoBackendNext
        /\ files' = files
        /\ dirs' = dirs

\* C22: fromPath on a directory without a characterGlyph directory raises
\* (TypeError) and gives no backend, and the directory holds the same files
\* and directories afterwards, the characterGlyph directory not made.
C22_OpenWithoutMainGlyphSetFails == [][C22_NoMainGlyphSetStep]_vars

C22_Witness ==
    /\ result.op = "open"
    /\ result.arg = Some(FALSE)
    /\ result.error = "TypeError"
    /\ Exists(Store, PathOf("deepComponent", MainDir, "d.glif"))
    /\ ~GlyphSetExists(dirs, "characterGlyph")

C23_RepeatedNameStep ==
    (ConstructStep(FALSE) /\ RepeatedNames(files) # {}) =>
        /\ result'.error # ""
        /\ (GlyphSetExists(dirs, "characterGlyph") /\ "error" \notin DOMAIN OpenDesignspace(files))
              => result'.error = "AssertionError"
        /\ NoBackendNext
        /\ files' = files

\* C23: fromPath on a project in which two glyph sets hold a glyph of the
\* same name raises (the assert of __init__) and gives no backend and no
\* glyph map.
C23_RepeatedNameFailsAtLoad == [][C23_RepeatedNameStep]_vars

C23_Witness ==
    /\ result.op = "open"
    /\ result.error = "AssertionError"
    /\ RepeatedNames(files) = {"a"}
    /\ glyphMap = EmptyMap

----------------------------------------------------------------------------
(* Properties of the case-fold repair *)

\* The layer records of a glyph as decoded from its files, before the
\* repair of the layer names.
DecodedLayers(st, n) ==
    LET gs == Head(HoldingSets(st, n))
        data == getGlyphLayerData(st, gs, n)
    IN  [ln \in DOMAIN data |-> fromGLIFData(data[ln])]

\* The glyphs the step has read from disk into the cache.
NewlyCached == DOMAIN cache' \ DOMAIN cache

FoldsApart(names) == Cardinality(names) = Cardinality({CaseFold(ln) : ln \in names})

\* The present layers that fold like the name.
FoldingLike(decoded, name) == {ln \in DOMAIN decoded : CaseFold(ln) = CaseFold(name)}

C24_RepairStep ==
    CallStep("getGlyph") =>
        \A n \in NewlyCached :
            LET decoded == DecodedLayers(Store, n)
                repaired == cache'[n]
                missing == missingLayerNamesOf(decoded)
            IN  FoldsApart(usedLayerNamesOf(decoded)) =>
                    /\ \A m \in missing :
                          FoldingLike(decoded, m) # {} =>
                              /\ m \in DOMAIN repaired
                              /\ \E ln \in FoldingLike(decoded, m) :
                                    /\ repaired[m] = decoded[ln]
                                    /\ ln \notin DOMAIN repaired
                    /\ \A k \in DOMAIN decoded \cap DOMAIN repaired :
                          repaired[k] = decoded[k]
                    /\ \A k \in DOMAIN decoded \ DOMAIN repaired :
                          \E m \in missing : CaseFold(m) = CaseFold(k) /\ repaired[m] = decoded[k]
                    /\ DOMAIN repaired \ DOMAIN decoded \subseteq missing
                    /\ Cardinality(DOMAIN repaired) = Cardinality(DOMAIN decoded)
                    /\ files' = files
                    /\ dirs' = dirs

\* C24: when the layer names the foreground refers to fold to different
\* names, a name among them that no decoded layer has, while a decoded
\* layer folds like it, is a key of the repaired layers with that layer's
\* record, the key the layer had is gone, every other layer has its key and
\* record as decoded, the number of layers is the same, and no file or
\* directory changes.
C24_CaseFoldRepairRenames == [][C24_RepairStep]_vars

C24_Witness ==
    /\ result.op = "getGlyph"
    /\ "a" \in DOMAIN cache
    /\ DOMAIN DecodedLayers(Store, "a") = {"foreground", "ab", "bold"}
    /\ DOMAIN cache["a"] = {"foreground", "AB", "bold"}
    /\ cache["a"]["AB"] = DecodedLayers(Store, "a")["ab"]

C25_NoRepairStep ==
    CallStep("getGlyph") =>
        \A n \in NewlyCached :
            LET decoded == DecodedLayers(Store, n)
                missing == missingLayerNamesOf(decoded)
            IN  (missing = {} \/ ~FoldsApart(usedLayerNamesOf(decoded))) =>
                    cache'[n] = decoded

\* C25: when a layer name the foreground refers to is missing and two of
\* the names it refers to fold to the same name, the layers are cached as
\* decoded, whichever layers are present; so they are when no name referred
\* to is missing.
C25_AmbiguousNamesLeftAlone == [][C25_NoRepairStep]_vars

C25_Witness ==
    /\ result.op = "getGlyph"
    /\ "a" \in DOMAIN cache
    /\ DOMAIN cache["a"] = {"foreground", "ab"}
    /\ usedLayerNamesOf(cache["a"]) = {"AB", "Ab"}
    /\ cache["a"] = DecodedLayers(Store, "a")

----------------------------------------------------------------------------
(* Properties of the layer names on disk *)

\* The layers of the glyph last written, but for the foreground.
WrittenLayerNames == DOMAIN result.glyph[1].layers \ {"foreground"}

\* The layers of the glyph last written are stored under names of their own.
SafeNamesApart ==
    \A l1, l2 \in WrittenLayerNames :
        l1 # l2 => makeSafeLayerName(l1) # makeSafeLayerName(l2)

\* The layers of the glyph last written that have no directory name are
\* stored in the directory of the generated name, and the reopened project
\* gives the glyph as written.
StoredUnderSafeNames ==
    LET gs == Head(HoldingSets(Store, result.name))
        mainFileName == Basename(contents[gs][result.name])
    IN  /\ \A ln \in WrittenLayerNames \cap UnsafeLayerNames :
              /\ makeSafeLayerName(ln) # ln
              /\ <<gs, ln>> \notin dirs
              /\ Exists(Store, PathOf(gs, makeSafeLayerName(ln), mainFileName))
        /\ getGlyph(EmptyMap, FALSE, Reopened, result.name).ret = result.glyph

\* C26: after putGlyph of a glyph (its default source first, on the layer
\* "foreground") every layer whose name has a path separator or is too long
\* is in the directory of its generated name, a backend reopened on the
\* project gives the glyph with the layer names as written, and no two
\* layer names of the glyph share a directory.
C26_BadLayerNamesRoundTrip ==
    (PutDone /\ Canonical(result.glyph[1])) => (StoredUnderSafeNames /\ SafeNamesApart)

----------------------------------------------------------------------------
(* Properties of the glyph map *)

\* The glyphs held by the deepComponent or the atomicElement glyph set.
AuxiliaryGlyphs ==
    {n \in GlyphNames :
        InGlyphSet(Store, "deepComponent", n) \/ InGlyphSet(Store, "atomicElement", n)}

\* C27: in every reachable state the glyph map gives the empty list of code
\* points to every glyph held by the deepComponent or the atomicElement
\* glyph set, and the glyph map of the backend is the glyph map of a backend
\* reopened on the project.
C27_AuxiliaryCodePointsEmpty ==
    /\ \A n \in AuxiliaryGlyphs : n \in DOMAIN glyphMap /\ glyphMap[n] = <<>>
    /\ glyphMap = OpenGlyphMap(files, dirs)

----------------------------------------------------------------------------
(* Properties of the cache and its timer *)

\* C28: every entry of the glyph layer cache has a record under the key
\* "foreground", in every reachable state.
C28_CacheEntriesHaveForeground ==
    \A n \in DOMAIN cache : "foreground" \in DOMAIN cache[n]

\* The step is a getGlyph that returned a glyph or a putGlyph that
\* completed: a call that reads or sets an entry of the cache.
CacheAccessStep ==
    \/ CallStep("getGlyph") /\ result'.ret # None
    \/ CallStep("putGlyph") /\ result'.error = ""

\* The call of the step went through updateTimeOut, which cancels the
\* pending timer and starts one with the full timeout.
TimeOutUpdated ==
    /\ result'.op = "putGlyph" => result'.name \in DOMAIN glyphMap
    /\ getLayerGlyphs(cache, timerPending, Store, result'.name).updated

\* C29: every access to the glyph layer cache (a getGlyph that misses, a
\* getGlyph that hits, a putGlyph that sets an entry) restarts the expiry
\* timer, so that a timer with the full timeout is pending after it.
C29_EveryAccessResetsTimer ==
    [][CacheAccessStep => (TimeOutUpdated /\ timerPending')]_vars

\* C30: whenever the glyph layer cache of an open backend has an entry, the
\* expiry timer is pending, so that the entry is cleared when no further
\* call comes.
C30_NonEmptyCacheHasTimer ==
    (cache # EmptyMap /\ ~watcherClosed) => timerPending

----------------------------------------------------------------------------
(* Properties of the population of the cache *)

\* The component names of the main file of glyph n on disk ({} when no
\* glyph set holds n).
ComponentsOnDisk(n) ==
    IF HoldingSets(Store, n) = <<>> THEN {}
    ELSE LET comps == getComponentNames(
                          fromGLIFData(files[contents[Head(HoldingSets(Store, n))][n]].data))
         IN  {comps[i] : i \in 1..Len(comps)}

\* The glyphs a population that starts at the names in todo reads when the
\* glyphs in done are in the cache: those reached through component
\* references that do not pass through a cached glyph.
RECURSIVE ReachedFrom(_, _)
ReachedFrom(todo, done) ==
    LET new == {n \in todo \ done : HoldingSets(Store, n) # <<>>}
    IN  IF new = {} THEN {}
        ELSE new \cup ReachedFrom(UNION {ComponentsOnDisk(n) : n \in new}, done \cup new)

NoDuplicates(seq) == \A i, j \in 1..Len(seq) : seq[i] = seq[j] => i = j

C31_PopulationStep ==
    (CallStep("getGlyph") /\ result'.name \notin DOMAIN cache) =>
        \E r \in {populateGlyphCache([cache |-> cache, error |-> "", reads |-> <<>>],
                                     Store, result'.name)} :
            /\ r.error = ""
            /\ cache' = r.cache
            /\ NoDuplicates(r.reads)
            /\ {r.reads[i] : i \in 1..Len(r.reads)} = ReachedFrom({result'.name}, DOMAIN cache)
            /\ DOMAIN cache' = DOMAIN cache \cup ReachedFrom({result'.name}, DOMAIN cache)

\* C31: a population of the cache ends for every component graph (a glyph
\* that names itself, glyphs that name each other, a name no glyph has),
\* and it reads and decodes every glyph it reaches once and no other glyph.
C31_PopulationTerminatesReadingOnce == [][C31_PopulationStep]_vars

\* A population has gone through a glyph that names itself, through a
\* glyph named twice and past a name that no glyph has.
C31_Witness ==
    /\ result.op = "getGlyph" /\ result.name = "a" /\ result.ret # None
    /\ DOMAIN cache = {"a", "b", "d"}
    /\ getComponentNames(cache["a"]["foreground"]) = <<"b", "d">>
    /\ getComponentNames(cache["b"]["foreground"]) = <<"d", "d">>
    /\ getComponentNames(cache["d"]["foreground"]) = <<"d">>

\* Every glyph that a cached foreground layer names as a component and
\* that some glyph set holds is in the cache.
ClosedUnderComponents(cacheDict, st) ==
    \A n \in DOMAIN cacheDict :
        "foreground" \in DOMAIN cacheDict[n] =>
            \A i \in 1..Len(getComponentNames(cacheDict[n]["foreground"])) :
                LET compoName == getComponentNames(cacheDict[n]["foreground"])[i]
                IN  HoldingSets(st, compoName) # <<>> => compoName \in DOMAIN cacheDict

\* C32 (as stated): in every reachable state the cache is closed under
\* component references: with a glyph it holds every glyph that the
\* glyph's cached foreground layer names as a component and that some
\* glyph set holds.
C32_CacheClosedUnderComponents == ClosedUnderComponents(cache, Store)

C32_ReadKeepsClosedStep ==
    (~CallStep("putGlyph") /\ ClosedUnderComponents(cache, Store)) =>
        ClosedUnderComponents(cache', StoreNext)

\* C32 (amended): every step but a putGlyph (a getGlyph, a deleteGlyph, the
\* expiry of the timer) leaves a cache that is closed under component
\* references closed, so the cache is closed in every state reached
\* without putGlyph.
C32_ReadsKeepCacheClosed == [][C32_ReadKeepsClosedStep]_vars

\* A getGlyph has populated a glyph and the component it names.
C32_Witness ==
    /\ result.op = "getGlyph" /\ result.name = "a" /\ result.ret # None
    /\ "a" \in DOMAIN cache /\ "d" \in DOMAIN cache
    /\ getComponentNames(cache["a"]["foreground"]) = <<"d">>
    /\ ClosedUnderComponents(cache, Store)

----------------------------------------------------------------------------
(* Properties of the default location *)

\* The records putGlyph builds for the glyph of the step when the font's
\* default location is fontLocation.
RecordsBuiltAt(fontLocation) ==
    buildLayerGlyphsFromVariableGlyph(result'.name, result'.glyph[1], result'.codePoints,
        localDefaultLocationAt(fontLocation, result'.glyph[1]),
        IF result'.name \notin DOMAIN glyphMap THEN EmptyMap
        ELSE getLayerGlyphs(cache, timerPending, Store, result'.name).value[1])

C33_DefaultLocationStep ==
    /\ cachedDefaultLocation' # None =>
          cachedDefaultLocation' = Some(defaultLocationOf(designspace'.axes.axes))
    /\ (CallStep("putGlyph") /\ result'.error = "") =>
          /\ cachedDefaultLocation' = Some(defaultLocationOf(designspace.axes.axes))
          /\ cache'[result'.name] = RecordsBuiltAt(defaultLocationOf(designspace.axes.axes))

\* C33: the default location putGlyph merges with the glyph's axis defaults
\* is the one of the font axes the designspace holds at the call: a value
\* kept from an earlier call is the value of the current axes, and after
\* putAxes the next putGlyph builds its records with the defaults of the
\* new axes.
C33_DefaultLocationFollowsAxes == [][C33_DefaultLocationStep]_vars

\* A glyph was written before putAxes, with the default location of no
\* axes, and another one after it, with the default of the new axis: the
\* first has the layer of the source without location as its foreground,
\* the second the layer of the source at the new default.
C33_Witness ==
    /\ result.op = "putGlyph" /\ result.name = "b" /\ result.error = ""
    /\ designspace.axes = [axes |-> <<WghtFontAxis(1)>>]
    /\ cachedDefaultLocation = Some([wght |-> 20])
    /\ "a" \in DOMAIN cache /\ "b" \in DOMAIN cache
    /\ cache["a"]["foreground"].xAdvance = 3
    /\ cache["b"]["foreground"].xAdvance = 2

----------------------------------------------------------------------------
(* Properties of the backend's own writes under the watcher *)

C34_OwnWritesStep ==
    (IsDelivery /\ extCount = 0) =>
        /\ cache' = cache
        /\ result'.ret = None
        /\ result'.invoked = 0

\* C34: while no other tool has written or removed a file, no batch of
\* notifications clears the glyph cache, gives a reload pattern or has a
\* callback called, however the events of the backend's own writes and
\* deletes are batched.
C34_OwnWritesNeverReload == [][C34_OwnWritesStep]_vars

\* The file names under which a glyph set holds its glyphs, each with the
\* glyph it is the file of.
HeldFileNames(gs) ==
    {<<Basename(contents[gs][n]), n>> : n \in DOMAIN contents[gs]}

\* C35: a glyph set's glifFileNames maps a file name to a glyph name exactly
\* when contents holds that glyph under that file name, so the file name of
\* a deleted glyph resolves to no glyph.
C35_FileNamesInverseOfContents ==
    \A gs \in GlyphSets :
        {<<fileName, glifFileNames[gs][fileName]>> : fileName \in DOMAIN glifFileNames[gs]}
            = HeldFileNames(gs)

----------------------------------------------------------------------------
(* Properties of a delete that fails *)

\* The step is a deleteGlyph that ended with an error of the storage.
FailedDelete ==
    /\ opCount' = opCount + 1
    /\ result'.op = "deleteGlyph"
    /\ result'.error \notin {"", "KeyError"}

C36_FailedDeleteStep ==
    FailedDelete =>
        /\ glyphMap' = glyphMap
        /\ result'.name \in DOMAIN glyphMap'
        /\ \E gs \in GlyphSets : result'.name \in DOMAIN contents'[gs]
        /\ HoldersOf(contents', result'.name) = HoldersOf(contents, result'.name)

\* C36: a deleteGlyph that fails with an error of the storage leaves the
\* glyph in the glyph map and held by the glyph sets that held it.
C36_FailedDeleteKeepsGlyph == [][C36_FailedDeleteStep]_vars

----------------------------------------------------------------------------
(* Properties of a read after a reload *)

\* The last step was a delivery that reported the glyph n as changed.
JustReported(n) ==
    /\ result.op = "processExternalChanges"
    /\ result.ret # None
    /\ n \in result.ret[1]

C37_ReadAfterReportStep ==
    \A n \in GlyphNames :
        (JustReported(n) /\ CallStep("getGlyph") /\ result'.name = n) =>
            /\ result'.error = ""
            /\ result'.ret = getGlyph(EmptyMap, FALSE, Reopened, n).ret

\* C37: the getGlyph(g) that follows the report of g as externally changed
\* returns what the files hold now, as a backend opened now would read
\* them: the glyph built from the main file and all layer files, or None
\* when the files are gone.
C37_ReadAfterReportIsOnDisk == [][C37_ReadAfterReportStep]_vars

----------------------------------------------------------------------------
(* The project manager (projectmanager.py): logins, tokens and the font
   handlers of the authorized clients.  The RCJK server answers through
   RCJKClientAsync; every await of the server is a point where the other
   tasks of the event loop run, and what the server answers is an input. *)

\* The logins made at most.
MaxLogins == 2

\* The font handlers made at most.
MaxHandlers == 2

\* The projects the server lists for the user, as "project/font".
AvailableProjects == {"p/f"}

\* The project identifiers a request may name.
ProjectIdentifiers == {"p/f", "q/g"}

\* The "groups" of the user record the server gives for user_me: no list
\* (None), or the names of the groups.
GroupLists ==
    {None} \cup {Some(g) : g \in SUBSET {"Reviewers", "DummyDesigners"}}
        \cup {Some({"Designers"})}

\* secrets.token_hex(32): the n-th token drawn, unlike every token drawn
\* before.
TokenHex(n) == <<"token", n>>

\* A token cookie no login has returned.
ForgedToken == TokenHex(0)

\* The token cookies a request may carry: a token a login returned, a
\* forged one, or none.
RequestTokens == issuedTokens \cup {ForgedToken, None}

\* RCJKProjectManager.authorize
authorize(clients, token) ==
    IF token \notin DOMAIN clients THEN None ELSE Some(token)

\* logoutHandler's self.authorizedClients.pop(token), left out
PopClientKeeps(clients, token) == clients

\* logoutHandler: self.authorizedClients.pop(token)
PopClient(clients, token) == MapDel(clients, token)

\* AuthorizedClient._userPermissions with the group "Reviewers" looked at
\* first
userPermissionsReviewersFirst(groupsList) ==
    IF groupsList = None THEN <<FALSE, FALSE>>
    ELSE IF "Reviewers" \in groupsList[1] THEN <<TRUE, FALSE>>
    ELSE IF "DummyDesigners" \in groupsList[1] THEN <<TRUE, TRUE>>
    ELSE <<FALSE, FALSE>>

\* AuthorizedClient._userPermissions: (userReadOnly, dummyEditor) from the
\* groups of the user record
userPermissions(groupsList) ==
    IF groupsList = None THEN <<FALSE, FALSE>>
    ELSE IF "DummyDesigners" \in groupsList[1] THEN <<TRUE, TRUE>>
    ELSE IF "Reviewers" \in groupsList[1] THEN <<TRUE, FALSE>>
    ELSE <<FALSE, FALSE>>

\* RCJKProjectManager.login: connect() succeeds (ok) or raises HTTPError.
Login(ok) ==
    /\ Len(rcjkClients) < MaxLogins
    /\ LET rcjkClient == Len(rcjkClients) + 1
           token == TokenHex(Cardinality(issuedTokens) + 1)
       IN  IF ~ok
           THEN /\ rcjkClients' = Append(rcjkClients,
                                         [connected |-> FALSE, closed |-> TRUE])
                /\ managerResult' = [NoManagerStep EXCEPT !.op = "login"]
                /\ UNCHANGED <<authorizedClients, clientObjects, issuedTokens>>
           ELSE /\ rcjkClients' = Append(rcjkClients,
                                         [connected |-> TRUE, closed |-> FALSE])
                /\ authorizedClients' = MapPut(authorizedClients, token, rcjkClient)
                /\ clientObjects' =
                       MapPut(clientObjects, rcjkClient,
                              [readOnly |-> managerReadOnly, projectMapping |-> None,
                               fontHandlers |-> EmptyMap])
                /\ issuedTokens' = issuedTokens \cup {token}
                /\ managerResult' = [NoManagerStep EXCEPT !.op = "login",
                                                          !.ret = Some(token)]
    /\ UNCHANGED <<managerReadOnly, userGroups, fontHandlerObjects, calls,
                   loggedOutTokens>>
    /\ UNCHANGED backendVars

\* The font handlers a client has registered.
HandlersOf(client) ==
    {clientObjects[client].fontHandlers[p] : p \in DOMAIN clientObjects[client].fontHandlers}

\* RCJKProjectManager.logoutHandler with AuthorizedClient.aclose: the
\* client is taken out first, then its connection and its font handlers
\* are closed.
Logout(token) ==
    /\ loggedOutTokens' = loggedOutTokens \cup ({token} \cap issuedTokens)
    /\ IF token # None /\ token \in DOMAIN authorizedClients
       THEN LET client == authorizedClients[token]
            IN  /\ authorizedClients' = PopClient(authorizedClients, token)
                /\ rcjkClients' = [rcjkClients EXCEPT ![client].closed = TRUE]
                /\ fontHandlerObjects' =
                       [h \in DOMAIN fontHandlerObjects |->
                           IF h \in HandlersOf(client)
                           THEN [fontHandlerObjects[h] EXCEPT !.closed = TRUE]
                           ELSE fontHandlerObjects[h]]
       ELSE UNCHANGED <<authorizedClients, rcjkClients, fontHandlerObjects>>
    /\ managerResult' = [NoManagerStep EXCEPT !.op = "logout", !.token = token]
    /\ UNCHANGED <<managerReadOnly, userGroups, clientObjects, calls, issuedTokens>>
    /\ UNCHANGED backendVars

\* A request that asks for authorization (viewHandler, rootDocumentHandler).
Authorize(token) ==
    /\ managerResult' = [NoManagerStep EXCEPT !.op = "authorize", !.token = token,
                                              !.ret = authorize(authorizedClients, token)]
    /\ UNCHANGED <<managerReadOnly, userGroups, rcjkClients, authorizedClients,
                   clientObjects, fontHandlerObjects, calls, issuedTokens,
                   loggedOutTokens>>
    /\ UNCHANGED backendVars

\* A getRemoteSubject call of a client for a project, waiting at pc.
Waiting(client, projectIdentifier, pc) ==
    SetToBag({[client |-> client, project |-> projectIdentifier, pc |-> pc]})

\* getRemoteSubject once projectAvailable has the project mapping, up to
\* the await of _userPermissions in getFontHandler: None for a project the
\* mapping does not list, the registered font handler if there is one;
\* otherwise the call waits for user_me.
AfterProjectAvailable(client, projectIdentifier, projectMapping, fontHandlers) ==
    IF projectIdentifier \notin projectMapping
    THEN [waits |-> EmptyBag, ret |-> None]
    ELSE IF projectIdentifier \in DOMAIN fontHandlers
    THEN [waits |-> EmptyBag, ret |-> Some(fontHandlers[projectIdentifier])]
    ELSE [waits |-> Waiting(client, projectIdentifier, "userPermissions"), ret |-> None]

\* RCJKProjectManager.getRemoteSubject, up to its first await of the
\* server.
BeginGetRemoteSubject(projectIdentifier, token) ==
    /\ BagCardinality(calls) + Len(fontHandlerObjects) < MaxHandlers
    /\ LET client == IF token \in DOMAIN authorizedClients
                     THEN authorizedClients[token] ELSE 0
           r == IF client = 0 THEN [waits |-> EmptyBag, ret |-> None]
                ELSE IF clientObjects[client].projectMapping = None
                THEN [waits |-> Waiting(client, projectIdentifier, "projectAvailable"),
                      ret |-> None]
                ELSE AfterProjectAvailable(client, projectIdentifier,
                                           clientObjects[client].projectMapping[1],
                                           clientObjects[client].fontHandlers)
       IN  /\ calls' = calls (+) r.waits
           /\ managerResult' =
                  [NoManagerStep EXCEPT !.op = IF r.waits = EmptyBag THEN "getRemoteSubject"
                                               ELSE "getRemoteSubject waits",
                                        !.token = token, !.ret = r.ret]
    /\ UNCHANGED <<managerReadOnly, userGroups, rcjkClients, authorizedClients,
                   clientObjects, fontHandlerObjects, issuedTokens, loggedOutTokens>>
    /\ UNCHANGED backendVars

\* The server answers get_project_font_uid_mapping: getProjectMapping
\* keeps the mapping and the call goes on.
ProjectMappingArrives(call) ==
    /\ BagIn(call, calls)
    /\ call.pc = "projectAvailable"
    /\ LET r == AfterProjectAvailable(call.client, call.project, AvailableProjects,
                                      clientObjects[call.client].fontHandlers)
       IN  /\ clientObjects' =
                  [clientObjects EXCEPT
                      ![call.client].projectMapping = Some(AvailableProjects)]
           /\ calls' = (calls (-) SetToBag({call})) (+) r.waits
           /\ managerResult' =
                  [NoManagerStep EXCEPT !.op = IF r.waits = EmptyBag THEN "getRemoteSubject"
                                               ELSE "getProjectMapping",
                                        !.ret = r.ret]
    /\ UNCHANGED <<managerReadOnly, userGroups, rcjkClients, authorizedClients,
                   fontHandlerObjects, issuedTokens, loggedOutTokens>>
    /\ UNCHANGED backendVars

\* The server answers user_me: getFontHandler makes the FontHandler, starts
\* its tasks, registers it under the project identifier and returns it.
UserPermissionsArrive(call) ==
    /\ BagIn(call, calls)
    /\ call.pc = "userPermissions"
    /\ LET permissions == userPermissions(userGroups)
           fontHandler == Len(fontHandlerObjects) + 1
       IN  /\ fontHandlerObjects' =
                  Append(fontHandlerObjects,
                         [client |-> call.client, project |-> call.project,
                          readOnly |-> clientObjects[call.client].readOnly \/ permissions[1],
                          dummyEditor |-> permissions[2],
                          closed |-> FALSE, callback |-> ""])
           /\ clientObjects' =
                  [clientObjects EXCEPT
                      ![call.client].fontHandlers = MapPut(@, call.project, fontHandler)]
           /\ calls' = calls (-) SetToBag({call})
           /\ managerResult' = [NoManagerStep EXCEPT !.op = "getFontHandler",
                                                     !.handler = fontHandler,
                                                     !.ret = Some(fontHandler)]
    /\ UNCHANGED <<managerReadOnly, userGroups, rcjkClients, authorizedClients,
                   issuedTokens, loggedOutTokens>>
    /\ UNCHANGED backendVars

\* closeFontHandler, the allConnectionsClosedCallback of the font handler:
\* del self.fontHandlers[projectIdentifier], then the handler is closed.
CloseFontHandler(fontHandler) ==
    /\ fontHandler \in DOMAIN fontHandlerObjects
    /\ ~fontHandlerObjects[fontHandler].closed
    /\ fontHandlerObjects[fontHandler].callback = ""
    /\ LET fh == fontHandlerObjects[fontHandler]
           registered == clientObjects[fh.client].fontHandlers
       IN  IF fh.project \notin DOMAIN registered
           THEN /\ fontHandlerObjects' =
                       [fontHandlerObjects EXCEPT ![fontHandler].callback = "KeyError"]
                /\ managerResult' = [NoManagerStep EXCEPT !.op = "closeFontHandler",
                                                          !.handler = fontHandler,
                                                          !.error = "KeyError"]
                /\ UNCHANGED clientObjects
           ELSE /\ clientObjects' =
                       [clientObjects EXCEPT
                           ![fh.client].fontHandlers = MapDel(@, fh.project)]
                /\ fontHandlerObjects' =
                       [fontHandlerObjects EXCEPT ![fontHandler].closed = TRUE,
                                                  ![fontHandler].callback = "done"]
                /\ managerResult' = [NoManagerStep EXCEPT !.op = "closeFontHandler",
                                                          !.handler = fontHandler,
                                                          !.ret = Some(registered[fh.project])]
    /\ UNCHANGED <<managerReadOnly, userGroups, rcjkClients, authorizedClients, calls,
                   issuedTokens, loggedOutTokens>>
    /\ UNCHANGED backendVars

NextManager ==
    \/ \E ok \in BOOLEAN : Login(ok)
    \/ \E token \in RequestTokens : Logout(token)
    \/ \E token \in RequestTokens : Authorize(token)
    \/ \E p \in ProjectIdentifiers, token \in RequestTokens : BeginGetRemoteSubject(p, token)
    \/ \E call \in BagToSet(calls) : ProjectMappingArrives(call)
    \/ \E call \in BagToSet(calls) : UserPermissionsArrive(call)
    \/ \E h \in DOMAIN fontHandlerObjects : CloseFontHandler(h)

SpecManager == Init /\ [][NextManager]_vars

\* The project manager as constructed, read-only or not, and what the
\* server holds for the user.
InitPermissions ==
    \E readOnly \in BOOLEAN, groupsList \in GroupLists :
        /\ InitBackend(ProjectFiles("deepComponent"), ProjectDirs("deepComponent"))
        /\ ManagerInit(readOnly, groupsList)

\* The logins and the calls that make font handlers.
NextPermissions ==
    \/ \E ok \in BOOLEAN : Login(ok)
    \/ \E p \in ProjectIdentifiers, token \in RequestTokens : BeginGetRemoteSubject(p, token)
    \/ \E call \in BagToSet(calls) : ProjectMappingArrives(call)
    \/ \E call \in BagToSet(calls) : UserPermissionsArrive(call)

SpecPermissions == InitPermissions /\ [][NextPermissions]_vars

----------------------------------------------------------------------------
(* Properties of the project manager *)

\* The font handlers made for a client and a project and not closed.
LiveHandlers(client, projectIdentifier) ==
    {h \in DOMAIN fontHandlerObjects :
        /\ fontHandlerObjects[h].client = client
        /\ fontHandlerObjects[h].project = projectIdentifier
        /\ ~fontHandlerObjects[h].closed}

AtMostOneHandler ==
    \A client \in DOMAIN clientObjects, p \in ProjectIdentifiers :
        Cardinality(LiveHandlers(client, p)) <= 1

\* The step is the all-connections-closed callback of a font handler.
CallbackStep ==
    /\ managerResult'.op = "closeFontHandler"
    /\ fontHandlerObjects' # fontHandlerObjects

C38_HandlerStep ==
    /\ AtMostOneHandler'
    /\ CallbackStep =>
           /\ managerResult'.error = ""
           /\ managerResult'.ret = Some(managerResult'.handler)

\* C38: a client has at most one live font handler per project, also when
\* getFontHandler calls for one project interleave, and the
\* all-connections-closed callback of a handler removes that handler's own
\* registration without an error.
C38_OneHandlerPerProject == [][C38_HandlerStep]_vars

\* The tokens that authorize a request: returned by a login and carried
\* by no logout request since.
AuthorizedExactly ==
    \A token \in RequestTokens :
        authorize(authorizedClients, token) # None
            <=> token \in issuedTokens \ loggedOutTokens

\* The step is a login whose connect() failed.
FailedLoginStep ==
    /\ Len(rcjkClients') = Len(rcjkClients) + 1
    /\ managerResult'.ret = None

\* The step is a logout request that carries the token.
LogoutStepOf(token) ==
    /\ managerResult'.op = "logout"
    /\ token \in loggedOutTokens'

\* The step is the start of a getRemoteSubject call with a token a logout
\* request has carried.
SubjectAfterLogoutStep ==
    /\ managerResult'.op \in {"getRemoteSubject", "getRemoteSubject waits"}
    /\ managerResult'.token \in loggedOutTokens

C39_AuthorizationStep ==
    /\ AuthorizedExactly'
    /\ FailedLoginStep =>
           /\ authorizedClients' = authorizedClients
           /\ clientObjects' = clientObjects
           /\ rcjkClients'[Len(rcjkClients')].closed
    /\ \A token \in DOMAIN authorizedClients :
           LogoutStepOf(token) =>
               /\ rcjkClients'[authorizedClients[token]].closed
               /\ \A h \in HandlersOf(authorizedClients[token]) :
                      fontHandlerObjects'[h].closed
               /\ authorize(authorizedClients', token) = None
    /\ SubjectAfterLogoutStep =>
           /\ managerResult'.op = "getRemoteSubject"
           /\ managerResult'.ret = None
           /\ calls' = calls

\* C39: a token authorizes a request exactly when a successful login
\* returned it and no logout request has carried it since; a failed login
\* registers no client and leaves its connection closed; a logout closes
\* the client of its token and its font handlers, and from then on
\* authorize rejects the token and a getRemoteSubject call made with it
\* returns None.
C39_AuthorizedIffLoggedIn == [][C39_AuthorizationStep]_vars

C39_Witness ==
    /\ managerResult.op = "authorize"
    /\ managerResult.token \in loggedOutTokens
    /\ managerResult.ret = None
    /\ \E c \in DOMAIN rcjkClients : ~rcjkClients[c].connected /\ rcjkClients[c].closed
    /\ \E h \in DOMAIN fontHandlerObjects :
           fontHandlerObjects[h].closed /\ fontHandlerObjects[h].callback = ""

\* The user is in the group, by the record the server gives.
InGroup(name) == userGroups # None /\ name \in userGroups[1]

\* C40: every font handler made is read-only when the manager is read-only
\* or the user is in "Reviewers" or "DummyDesigners", and is a dummy editor
\* exactly when the user is in "DummyDesigners"; for a user record without
\* a group list the handler is no dummy editor and is read-only only with
\* a read-only manager.
C40_PermissionsFollowGroups ==
    \A h \in DOMAIN fontHandlerObjects :
        /\ (managerReadOnly \/ InGroup("Reviewers") \/ InGroup("DummyDesigners"))
               => fontHandlerObjects[h].readOnly
        /\ fontHandlerObjects[h].dummyEditor <=> InGroup("DummyDesigners")
        /\ userGroups = None =>
               /\ fontHandlerObjects[h].readOnly <=> managerReadOnly
               /\ ~fontHandlerObjects[h].dummyEditor

C40_Witness ==
    /\ ~managerReadOnly
    /\ InGroup("Reviewers") /\ InGroup("DummyDesigners")
    /\ \E h \in DOMAIN fontHandlerObjects :
           fontHandlerObjects[h].readOnly /\ fontHandlerObjects[h].dummyEditor

====
